---- MODULE Spec2Model ----
(***************************************************************************)
(* State-machine model of the interrupt-driven device layer of universeK:  *)
(* the vectored dispatch routine, the PIC end-of-interrupt operation, the  *)
(* PS/2 mouse packet decoder and the PS/2 keyboard scancode decoder.       *)
(*                                                                         *)
(* The repository holds two divergent source trees that are linked into    *)
(* two different kernels: the tree under src/src + src/unnamed ("src") and  *)
(* the older top-level tree ("legacy").  The variable `build` records      *)
(* which one is running; it is chosen once and never changes.              *)
(*                                                                         *)
(* Every handler runs behind an interrupt gate (flags 0x8E), which clears  *)
(* IF on entry, so one interrupt delivery is one atomic step.              *)
(***************************************************************************)
EXTENDS Integers, Sequences, FiniteSets, TLC

\* ---------------------------------------------------------------- constants
PIC1_COMMAND == 32
PIC2_COMMAND == 160
PIC_EOI == 32
IRQ_BASE == 32
IRQ_COUNT == 16
MAX_INTERRUPTS == 255
MOUSE_IRQ == 12
KEYBOARD_DATA == 96
KEYBOARD_CMD_SET_LEDS == 237
KEYBOARD_CMD_RESET == 255
KEYBOARD_CMD_ENABLE == 244
KEYBOARD_CMD_SET_DEFAULTS == 246
KEYBOARD_RES_ACK == 250
KEYBOARD_RES_SELF_TEST_OK == 170
PIC1_DATA == 33
PIC2_DATA == 161
MOUSE_PORT == 96
MOUSE_CMD == 100
MOUSE_ENABLE == 168
MOUSE_GET_STATUS == 32
MOUSE_SET_STATUS == 96
MOUSE_WRITE_MOUSE == 212
MOUSE_DEFAULT == 246
MOUSE_ENABLE_PACKET == 244
MOUSE_DISABLE == 245
MOUSE_RESET == 255
MOUSE_ACK == 250
MOUSE_SELF_TEST == 170
ICW1_ICW4 == 1
ICW1_INIT == 16
ICW4_8086 == 1
PIT_CHANNEL0 == 64
PIT_COMMAND == 67
PIT_FREQUENCY == 1193180
TIMER_FREQUENCY == 100
MAX_KEYBOARD_HANDLERS == 8
MAX_DRIVERS == 32
POST_PORT == 128
KEYBOARD_IRQ == 1
TIMER_IRQ == 0

NULL == "NULL"

\* ------------------------------------------------------------------- bounds
\* timer_ticks is a free-running uint32_t; the timer interrupt is modelled
\* for the first MaxTicks ticks only.
MaxTicks == 2

\* The wait helpers give up after 1000 (src keyboard) or 100000 (mouse, legacy
\* keyboard) polls; the handshake model gives every bounded wait PollBudget polls.
PollBudget == 2

\* --------------------------------------------------------- input sample sets
\* Bytes the mouse sends in SpecMouse: 0x00 0x03 0x05 (no start bit), 0x08 (start,
\* no sign bit), 0xFF (start, both sign bits, all buttons, largest movement)
MouseBytes == {0, 3, 5, 8, 255}
\* Bytes the mouse sends in the dispatch-level Spec: 0x00 and 0x28
IrqMouseBytes == {0, 40}
\* Controller status bytes read from port 0x64 (bit 0 output-full, bit 5 aux data)
StatusBytes == {1, 33}
\* Scancodes in the dispatch-level Spec: 'a' make and caps-lock make
IrqScancodes == {30, 58}
\* Scancodes in SpecKbd: every make code, and the break codes of the seven
\* modifier/lock keys (0x9D 0xAA 0xB6 0xB8 0xBA 0xC5 0xC6), of 'a' (0x9E), of
\* code 0 (0x80) and of code 127 (0xFF)
Scancodes == (0..127) \cup {128, 157, 158, 170, 182, 184, 186, 197, 198, 255}

\* ------------------------------------------------------- C integer operators
\* (v & bit) != 0 for a single-bit mask `bit` (a power of two), v >= 0
TestBit(v, bit) == (v \div bit) % 2 = 1

\* v & (m - 1) for m a power of two: the low bits of v, v >= 0
LowBits(v, m) == v % m

\* v | 0xFF00 for 0 <= v < 2^16: bits 8..15 set, bits 0..7 kept
OrFF00(v) == 65280 + (v % 256)

Pow2(n) == <<1, 2, 4, 8, 16, 32, 64, 128, 256>>[n + 1]

ShiftRight(a, n) == a \div Pow2(n)

\* conversion of an int to uint8_t (store into a uint8_t object)
ToUint8(v) == v % 256

\* the cast (int16_t)v
ToInt16(v) == IF v % 65536 >= 32768 THEN (v % 65536) - 65536 ELSE v % 65536

\* the cast to int8_t (struct mouse_packet.scroll)
ToInt8(v) == IF v % 256 >= 128 THEN (v % 256) - 256 ELSE v % 256

\* ------------------------------------------------------------------- state
VARIABLES
    build,               \* "src" or "legacy": which source tree is linked
    interrupt_handlers,  \* src: the non-NULL entries of interrupt_handlers[MAX_INTERRUPTS]
    irq_handlers,        \* legacy: the non-NULL entries of irq_handlers[IRQ_COUNT]
    timer_ticks,         \* src: timer tick counter
    mouse_x, mouse_y,    \* accumulated pointer position
    mouse_cycle,         \* packet byte index 0..2
    mouse_packet,        \* packet bytes, indexed 0..2
    handler,             \* the mouse consumer callback, or NULL
    keyboard_state,      \* modifiers, lock bits, subscriber array, num_handlers
    drivers,             \* driver registry: drivers[0 .. num_drivers-1], in order
    pic_mask,            \* interrupt mask registers <<master, slave>> of the two PICs
    pic_base,            \* vector offsets <<master, slave>> programmed into the PICs
    in_service,          \* lines whose in-service bit is set in the PICs (2: the cascade)
    idt_loaded,          \* whether the IDT has been loaded (lidt)
    iflag,               \* the CPU's interrupt-enable flag (cli / sti)
    thread,              \* where the non-interrupt code is: routine, step, locals
    last,                \* what the most recent step was (observation)
    port_writes,         \* port writes / io delays of the most recent step
    mouse_decoded,       \* packets the decoder completed ("Process packet") in that step
    mouse_delivered,     \* mouse events handed to the consumer in that step
    kbd_event,           \* the event built by keyboard_process_scancode
    kbd_delivered,       \* subscribers the keyboard event was handed to, in order
    cpu,                 \* registers and stack of the CPU across one interrupt entry
    keys_held            \* the keys physically held down on the keyboard (key codes)

vars == <<build, interrupt_handlers, irq_handlers, timer_ticks, mouse_x, mouse_y,
          mouse_cycle, mouse_packet, handler, keyboard_state, drivers, pic_mask,
          pic_base, in_service, idt_loaded, iflag, thread, last,
          port_writes,
          mouse_decoded, mouse_delivered, kbd_event, kbd_delivered, cpu,
          keys_held>>

mouse_vars == <<mouse_x, mouse_y, mouse_cycle, mouse_packet>>

\* what interrupt_init and the PIC remap set up once
setup_vars == <<idt_loaded, pic_base>>

\* A handler table is kept as the function from the indices that hold a handler to
\* that handler; every other entry of the array is NULL.
TableGet(t, i) == IF i \in DOMAIN t THEN t[i] ELSE NULL

\* (mutation: an occupied entry keeps its first handler)
TableSet_keep_first(t, i, h) ==
    IF i \in DOMAIN t /\ h # NULL
    THEN t
    ELSE [j \in (IF h = NULL THEN DOMAIN t \ {i} ELSE DOMAIN t \cup {i}) |->
             IF j = i THEN h ELSE t[j]]

\* (mutation: clearing one entry clears the whole table)
TableSet_clear_all(t, i, h) ==
    IF h = NULL
    THEN [j \in {} |-> NULL]
    ELSE [j \in DOMAIN t \cup {i} |-> IF j = i THEN h ELSE t[j]]

TableSet(t, i, h) ==
    [j \in (IF h = NULL THEN DOMAIN t \ {i} ELSE DOMAIN t \cup {i}) |->
        IF j = i THEN h ELSE t[j]]

EmptyTable == [j \in {} |-> NULL]

Out(port, value) == <<"out", port, value>>
IoWaitSrc == <<"io_wait", 0, 0>>

\* data: the byte the called handler read from port 0x60 (0 when it read none)
\* rdy: whether each of the two keyboard_wait_input polls of an LED exchange
\* saw the input buffer drain
\* out: the values a call stored through its pointer arguments
\* prev: the handler the line held when a registry call was made
\* ret: the value the call returned ("void" for a void function, "none" when
\* the step is not a call)
NoLast ==
    [op |-> "none", vec |-> 0, who |-> NULL, spurious |-> FALSE, cycle |-> 0,
     data |-> 0, rdy |-> <<TRUE, TRUE>>, ret |-> "none", prev |-> NULL,
     out |-> <<0, 0>>, resp |-> <<>>, status |-> 0]

\* kernel_main in its main loop, after "sti": no routine in progress
\* the general registers in the order pusha stores them (the stack pointer,
\* fifth, is the depth of the stack), then the segment registers in the order
\* isr_common_stub pushes them
GeneralRegs == <<"eax", "ecx", "edx", "ebx", "ebp", "esi", "edi">>

SegmentRegs == <<"ds", "es", "fs", "gs">>

RegNames == {"eax", "ecx", "edx", "ebx", "ebp", "esi", "edi", "ds", "es", "fs", "gs"}

\* the CPU running ordinary code: stack (the last word is the top), registers
CpuRunning(stack, regs) ==
    [pc |-> "running", vec |-> 0, stack |-> stack, regs |-> regs, ret |-> <<>>,
     entry_stack |-> stack, entry_regs |-> regs, err |-> <<>>, touched |-> FALSE]

NoCpu == CpuRunning(<<>>, [r \in RegNames |-> 0])

\* the kernel data segment selector ("mov ax, 0x10")
KERNEL_DS == 16

MainLoop ==
    [pc |-> "main_loop", step |-> 0, timeout |-> 0, vec |-> 0, who |-> NULL,
     saved |-> FALSE]

\* (mutation: pic_init leaves the mouse line masked)
PicInitMask_mouse_closed(b) == IF b = "src" THEN <<248, 255>> ELSE <<0, 0>>

\* the mask registers as pic_init leaves them: src unmasks IRQ 0, 1, 2 on the
\* master and IRQ 12 on the slave,
\* "mask1 = ~((1 << 0) | (1 << 1) | (1 << 2)); mask2 = ~(1 << 4);" as uint8_t;
\* legacy writes 0 to both data ports
PicInitMask(b) ==
    IF b = "src" THEN <<255 - (2^0 + 2^1 + 2^2), 255 - 2^4>> ELSE <<0, 0>>

\* ICW2 of pic_init / pic_remap: the vector the master raises for line 0 and the
\* slave for line 8
PicInitBase(b) == IF b = "src" THEN <<IRQ_BASE, IRQ_BASE + 8>> ELSE <<32, 40>>

NoEvent ==
    [scancode |-> 0, key |-> 0, pressed |-> FALSE, shift |-> FALSE, ctrl |-> FALSE,
     alt |-> FALSE, caps_lock |-> FALSE, num_lock |-> FALSE, scroll_lock |-> FALSE]

\* US keyboard layout; entries 58..127 are zero
keyboard_map(s) ==
    LET t == <<0, 27, 49, 50, 51, 52, 53, 54, 55, 56, 57, 48, 45, 61, 8,
               9, 113, 119, 101, 114, 116, 121, 117, 105, 111, 112, 91, 93, 10,
               0, 97, 115, 100, 102, 103, 104, 106, 107, 108, 59, 39, 96,
               0, 92, 122, 120, 99, 118, 98, 110, 109, 44, 46, 47, 0,
               42, 0, 32>>
    IN IF s + 1 <= Len(t) THEN t[s + 1] ELSE 0

\* ------------------------------------------------------------ PIC: EOI
\* (mutation: master acknowledged before the slave)
pic_send_eoi_master_first(irq) ==
    <<Out(PIC1_COMMAND, PIC_EOI)>>
        \o (IF irq >= 8 THEN <<Out(PIC2_COMMAND, PIC_EOI)>> ELSE <<>>)

\* src build: pic_send_eoi(irq) -- the sequence of port writes it performs
pic_send_eoi(irq) ==
    (IF irq >= 8 THEN <<Out(PIC2_COMMAND, PIC_EOI)>> ELSE <<>>)
        \o <<Out(PIC1_COMMAND, PIC_EOI)>>

\* legacy build: io_wait() is outb(0x80, 0)
IoWaitLegacy == Out(POST_PORT, 0)

\* legacy build: the EOI tail of irq_handler, irq = int_no - 32
irq_handler_eoi(irq) ==
    (IF irq >= 8 THEN <<Out(PIC2_COMMAND, PIC_EOI), IoWaitLegacy>> ELSE <<>>)
        \o <<Out(PIC1_COMMAND, PIC_EOI), IoWaitLegacy>>

\* ------------------------------------------------------ mouse packet decoder
\* (mutation: the packet-start marker is not checked)
MouseIsStart_unchecked(data) == TRUE

\* "if (data & 0x08)": the packet-start marker test of case 0
MouseIsStart(data) == TestBit(data, 8)

\* "if (mouse_packet[0] & mask) mouse_packet[i] |= 0xFF00;" on a uint8_t element:
\* the OR is done in int and the result is stored back into the uint8_t
MouseSignExtend(b0, b, mask) ==
    IF TestBit(b0, mask) THEN ToUint8(OrFF00(b)) ELSE b

\* "mouse_x += (int16_t)mouse_packet[1];"
MouseAddX(x, b) == x + ToInt16(b)

\* (mutation: the Y axis is not inverted)
MouseSubY_added(y, b) == y + ToInt16(b)

\* "mouse_y -= (int16_t)mouse_packet[2];"
MouseSubY(y, b) == y - ToInt16(b)

\* (mutation: the upper clamp is missing)
MouseClamp_lower_only(v, hi) == IF v < 0 THEN 0 ELSE v

\* "if (v < 0) v = 0; if (v > hi) v = hi;"
MouseClamp(v, hi) ==
    LET lo == IF v < 0 THEN 0 ELSE v
    IN IF lo > hi THEN hi ELSE lo

\* (mutation: the button mask is 0x0F instead of 0x07)
MouseEvent_wide_buttons(b0, x, y) ==
    [buttons |-> ToUint8(LowBits(b0, 16)),
     x |-> ToInt16(x),
     y |-> ToInt16(y),
     scroll |-> ToInt8(LowBits(ShiftRight(b0, 3), 16))]

\* the struct mouse_packet built for the consumer
MouseEvent(b0, x, y) ==
    [buttons |-> ToUint8(LowBits(b0, 8)),
     x |-> ToInt16(x),
     y |-> ToInt16(y),
     scroll |-> ToInt8(LowBits(ShiftRight(b0, 3), 16))]

\* (mutation: "mouse_cycle = 0" is missing after a completed packet)
MouseNextCycle_no_reset(cycle, data) ==
    CASE cycle = 0 -> IF MouseIsStart(data) THEN 1 ELSE 0
      [] cycle = 1 -> 2
      [] OTHER -> cycle

\* value of mouse_cycle after the switch
MouseNextCycle(cycle, data) ==
    CASE cycle = 0 -> IF MouseIsStart(data) THEN 1 ELSE 0
      [] cycle = 1 -> 2
      [] cycle = 2 -> 0
      [] OTHER -> cycle

\* the switch (mouse_cycle) of mouse_handler, both builds: the new values of the
\* decoder state and the events delivered, for one data byte
MouseDecode(x, y, cycle, packet, h, data) ==
    LET p == IF cycle \in 0..2 THEN [packet EXCEPT ![cycle] = data] ELSE packet
        p1 == MouseSignExtend(p[0], p[1], 16)
        p2 == MouseSignExtend(p[0], p[2], 32)
        nx == MouseClamp(MouseAddX(x, p1), 79)
        ny == MouseClamp(MouseSubY(y, p2), 24)
    IN IF cycle = 2
       THEN [x |-> nx, y |-> ny, cycle |-> MouseNextCycle(cycle, data),
             packet |-> [p EXCEPT ![1] = p1, ![2] = p2], decoded |-> 1,
             events |-> IF h # NULL THEN <<MouseEvent(p[0], nx, ny)>> ELSE <<>>]
       ELSE [x |-> x, y |-> y, cycle |-> MouseNextCycle(cycle, data),
             packet |-> p, decoded |-> 0, events |-> <<>>]

\* (mutation: the status test is missing, every interrupt is taken as mouse data)
MouseSpurious_never(status) == FALSE

\* "if (!(status & 0x20)) return;"
MouseSpurious(status) == ~TestBit(status, 32)

\* port writes of the src mouse_handler on its two return paths
MouseHandlerWrites(status) ==
    IF MouseSpurious(status) THEN <<>> ELSE pic_send_eoi(MOUSE_IRQ)

\* mouse_handler: `own` are the handler's own port writes, `tail` the writes the
\* dispatcher performs after the handler returns
mouse_handler(status, data, own, tail) ==
    LET d == MouseDecode(mouse_x, mouse_y, mouse_cycle, mouse_packet, handler, data)
    IN /\ IF MouseSpurious(status)
          THEN /\ UNCHANGED mouse_vars
               /\ mouse_decoded' = 0
               /\ mouse_delivered' = <<>>
          ELSE /\ mouse_x' = d.x
               /\ mouse_y' = d.y
               /\ mouse_cycle' = d.cycle
               /\ mouse_packet' = d.packet
               /\ mouse_decoded' = d.decoded
               /\ mouse_delivered' = d.events
       /\ port_writes' = own \o tail
       /\ kbd_event' = NoEvent
       /\ kbd_delivered' = <<>>
       /\ UNCHANGED <<timer_ticks, handler, keyboard_state>>

\* (mutation: the two coordinates are stored the wrong way round)
get_mouse_position_swapped == <<mouse_y, mouse_x>>

\* get_mouse_position(&x, &y)
get_mouse_position == <<mouse_x, mouse_y>>

\* ------------------------------------------------------- keyboard decoder
\* keyboard_send_data(data): the write happens only when the controller's input
\* buffer drained within the poll budget (`ready`)
keyboard_send_data(data, ready) ==
    IF ready THEN <<Out(KEYBOARD_DATA, data), IoWaitSrc>> ELSE <<>>

\* the LED byte computed by keyboard_update_leds ("leds |= ..." of three
\* distinct bits)
KeyboardLeds(ks) ==
    (IF ks.num_lock THEN 2 ELSE 0) + (IF ks.caps_lock THEN 4 ELSE 0)
        + (IF ks.scroll_lock THEN 1 ELSE 0)

\* keyboard_update_leds(): port writes of the two send/read exchanges
keyboard_update_leds(ks, rdy) ==
    keyboard_send_data(KEYBOARD_CMD_SET_LEDS, rdy[1])
        \o keyboard_send_data(KeyboardLeds(ks), rdy[2])

KeyIsRelease(scancode) == TestBit(scancode, 128)

\* "scancode &= 0x7F" on release, the byte itself on press
KeyCode(scancode) ==
    IF KeyIsRelease(scancode) THEN LowBits(scancode, 128) ELSE scancode

\* (mutation: every key release clears shift)
KeyboardModifiers_release_clears_shift(ks, scancode) ==
    LET c == KeyCode(scancode)
    IN IF KeyIsRelease(scancode)
       THEN CASE c = 29 -> [ks EXCEPT !.ctrl = FALSE]
              [] c = 56 -> [ks EXCEPT !.alt = FALSE]
              [] OTHER -> [ks EXCEPT !.shift = FALSE]
       ELSE CASE c \in {42, 54} -> [ks EXCEPT !.shift = TRUE]
              [] c = 29 -> [ks EXCEPT !.ctrl = TRUE]
              [] c = 56 -> [ks EXCEPT !.alt = TRUE]
              [] c = 69 -> [ks EXCEPT !.num_lock = ~ks.num_lock]
              [] c = 58 -> [ks EXCEPT !.caps_lock = ~ks.caps_lock]
              [] c = 70 -> [ks EXCEPT !.scroll_lock = ~ks.scroll_lock]
              [] OTHER -> ks

\* the two switch statements of keyboard_process_scancode: the modifier state
\* after the scancode
KeyboardModifiers(ks, scancode) ==
    LET c == KeyCode(scancode)
    IN IF KeyIsRelease(scancode)
       THEN CASE c \in {42, 54} -> [ks EXCEPT !.shift = FALSE]
              [] c = 29 -> [ks EXCEPT !.ctrl = FALSE]
              [] c = 56 -> [ks EXCEPT !.alt = FALSE]
              [] OTHER -> ks
       ELSE CASE c \in {42, 54} -> [ks EXCEPT !.shift = TRUE]
              [] c = 29 -> [ks EXCEPT !.ctrl = TRUE]
              [] c = 56 -> [ks EXCEPT !.alt = TRUE]
              [] c = 69 -> [ks EXCEPT !.num_lock = ~ks.num_lock]
              [] c = 58 -> [ks EXCEPT !.caps_lock = ~ks.caps_lock]
              [] c = 70 -> [ks EXCEPT !.scroll_lock = ~ks.scroll_lock]
              [] OTHER -> ks

\* (mutation: the lock keys resync the LEDs on release too)
KeyboardLedResync_on_release(scancode) == KeyCode(scancode) \in {69, 58, 70}

\* whether the press branch calls keyboard_update_leds()
KeyboardLedResync(scancode) ==
    ~KeyIsRelease(scancode) /\ KeyCode(scancode) \in {69, 58, 70}

\* (mutation: shift does not upper-case the mapped letter)
KeyboardKey_no_shift(scancode, shift) ==
    LET c == KeyCode(scancode)
    IN IF c < 128 THEN keyboard_map(c) ELSE 0

\* "Map to ASCII": event.key
KeyboardKey(scancode, shift) ==
    LET c == KeyCode(scancode)
        k == keyboard_map(c)
    IN IF c < 128
       THEN (IF shift /\ k >= 97 /\ k <= 122 THEN k - 32 ELSE k)
       ELSE 0

\* (mutation: the modifier snapshot is taken before the scancode's own update)
KeyboardEvent_stale_modifiers(ks, scancode) ==
    [scancode |-> scancode,
     key |-> KeyboardKey(scancode, ks.shift),
     pressed |-> ~KeyIsRelease(scancode),
     shift |-> ks.shift, ctrl |-> ks.ctrl, alt |-> ks.alt,
     caps_lock |-> ks.caps_lock, num_lock |-> ks.num_lock,
     scroll_lock |-> ks.scroll_lock]

\* the keyboard_event_t built by keyboard_process_scancode
KeyboardEvent(ks, scancode) ==
    LET n == KeyboardModifiers(ks, scancode)
    IN [scancode |-> scancode,
        key |-> KeyboardKey(scancode, n.shift),
        pressed |-> ~KeyIsRelease(scancode),
        shift |-> n.shift, ctrl |-> n.ctrl, alt |-> n.alt,
        caps_lock |-> n.caps_lock, num_lock |-> n.num_lock,
        scroll_lock |-> n.scroll_lock]

\* (mutation: the subscribers are called last to first)
KeyboardCalls_reverse(ks, i) ==
    [k \in 1..(ks.num_handlers - i) |-> ks.handlers[ks.num_handlers - k]]

\* "Call handlers": the subscribers invoked, in array order
RECURSIVE KeyboardCalls(_, _)
KeyboardCalls(ks, i) ==
    IF i >= ks.num_handlers THEN <<>>
    ELSE (IF ks.handlers[i] # NULL THEN <<ks.handlers[i]>> ELSE <<>>)
             \o KeyboardCalls(ks, i + 1)

\* keyboard_interrupt -> keyboard_process_scancode(scancode); pic_send_eoi(1)
keyboard_interrupt(scancode, rdy, tail) ==
    /\ keyboard_state' = KeyboardModifiers(keyboard_state, scancode)
    /\ kbd_event' = KeyboardEvent(keyboard_state, scancode)
    /\ kbd_delivered' = KeyboardCalls(keyboard_state, 0)
    /\ port_writes' =
           (IF KeyboardLedResync(scancode)
            THEN keyboard_update_leds(keyboard_state', rdy)
            ELSE <<>>)
               \o pic_send_eoi(KEYBOARD_IRQ) \o tail
    /\ mouse_decoded' = 0
    /\ mouse_delivered' = <<>>
    /\ UNCHANGED <<mouse_vars, handler, timer_ticks>>

\* legacy keyboard_irq_handler: forwards the mapped character to the window
\* system (an external collaborator); it owns no decoder state
keyboard_irq_handler(scancode, tail) ==
    /\ port_writes' = tail
    /\ kbd_event' = NoEvent
    /\ kbd_delivered' = <<>>
    /\ mouse_decoded' = 0
    /\ mouse_delivered' = <<>>
    /\ UNCHANGED <<mouse_vars, handler, timer_ticks, keyboard_state>>

\* timer_callback: timer_ticks++; pic_send_eoi(0)
\* (the uint32_t wrap at 2^32 lies beyond MaxTicks and beyond TLC's integers)
timer_callback(tail) ==
    /\ timer_ticks' = timer_ticks + 1
    /\ port_writes' = pic_send_eoi(TIMER_IRQ) \o tail
    /\ kbd_event' = NoEvent
    /\ kbd_delivered' = <<>>
    /\ mouse_decoded' = 0
    /\ mouse_delivered' = <<>>
    /\ UNCHANGED <<mouse_vars, handler, keyboard_state>>

\* no handler is called: only the dispatcher's own writes happen
NoHandler(tail) ==
    /\ port_writes' = tail
    /\ kbd_event' = NoEvent
    /\ kbd_delivered' = <<>>
    /\ mouse_decoded' = 0
    /\ mouse_delivered' = <<>>
    /\ UNCHANGED <<mouse_vars, handler, timer_ticks, keyboard_state>>

\* ------------------------------------------------------------- dispatch
\* the byte handler h reads from the data port during a delivery
DataRead(h, dev) ==
    CASE h = "mouse_handler" -> IF MouseSpurious(dev.status) THEN 0 ELSE dev.data
      [] h \in {"keyboard_interrupt", "keyboard_irq_handler"} -> dev.scancode
      [] OTHER -> 0

\* the vectors that have a gate in the IDT (interrupt_init)
IdtVectors == {0, 1} \cup (32..47)

\* the 8259 pair, fully nested mode --------------------------------------
\* the in-service bits set when line n is acknowledged: a slave line also sets
\* the master's cascade bit
PicRaised(n) == IF n < 8 THEN {n} ELSE {n, 2}

\* the in-service bits of the master (0..7) or the slave (8..15)
OfMaster(svc) == {i \in svc : i < 8}
OfSlave(svc) == {i \in svc : i >= 8}

\* a non-specific EOI clears the highest-priority (lowest-numbered) in-service
\* bit of the controller it is written to
ClearHighest(bits) == bits \ {i \in bits : \A j \in bits : i <= j}

\* the in-service bits after the first k port writes of a sequence
RECURSIVE InServiceAfter(_, _, _)
InServiceAfter(svc, writes, k) ==
    IF k = 0 THEN svc
    ELSE LET before == InServiceAfter(svc, writes, k - 1)
         IN CASE writes[k] = Out(PIC1_COMMAND, PIC_EOI) ->
                     ClearHighest(OfMaster(before)) \cup OfSlave(before)
              [] writes[k] = Out(PIC2_COMMAND, PIC_EOI) ->
                     OfMaster(before) \cup ClearHighest(OfSlave(before))
              [] OTHER -> before

\* whether the controllers pass a request on line n to the CPU: the line is
\* not masked and no line of the same or a higher priority is in service; a
\* slave line also has to get through the master's cascade input
PicCanRaise(masks, svc, n) ==
    IF n < 8
    THEN /\ ~TestBit(masks[1], 2^n)
         /\ \A i \in OfMaster(svc) : i > n
    ELSE /\ ~TestBit(masks[2], 2^(n - 8))
         /\ ~TestBit(masks[1], 4)
         /\ \A i \in OfSlave(svc) : i > n
         /\ \A i \in OfMaster(svc) : i > 2

\* src: interrupt_handler(context), context->int_no = v
\* dev: what the devices answer during this delivery
\* svc: the in-service bits of the PICs when the handler is entered
interrupt_handler_from(v, dev, svc) ==
    LET h == TableGet(interrupt_handlers, v)
    IN /\ build = "src"
       /\ h = "timer_callback" => timer_ticks < MaxTicks
       /\ CASE h = "timer_callback" -> timer_callback(<<>>)
            [] h = "keyboard_interrupt" -> keyboard_interrupt(dev.scancode, dev.rdy, <<>>)
            [] h = "mouse_handler" ->
                   mouse_handler(dev.status, dev.data, MouseHandlerWrites(dev.status), <<>>)
            [] OTHER -> NoHandler(<<>>)
       /\ last' = [op |-> "interrupt", vec |-> v, who |-> h,
                   spurious |-> (h = "mouse_handler" /\ MouseSpurious(dev.status)),
                   cycle |-> mouse_cycle, data |-> DataRead(h, dev),
                   rdy |-> IF h = "keyboard_interrupt" THEN dev.rdy ELSE <<TRUE, TRUE>>,
                   ret |-> "none", prev |-> NULL, out |-> <<0, 0>>, resp |-> <<>>,
                   status |-> IF h = "mouse_handler" THEN dev.status ELSE 0]
       /\ in_service' = InServiceAfter(svc, port_writes', Len(port_writes'))
       /\ UNCHANGED <<build, cpu, setup_vars, iflag, thread, pic_mask, drivers, interrupt_handlers,
                      irq_handlers>>

\* interrupt_handler(context) called with the PICs as they are
interrupt_handler(v, dev) ==
    /\ interrupt_handler_from(v, dev, in_service)
    /\ UNCHANGED keys_held

\* legacy: irq_handler(r), r->int_no = v
irq_handler_from(v, dev, svc) ==
    LET irq == v - 32
        h == IF irq >= 0 /\ irq < IRQ_COUNT THEN TableGet(irq_handlers, irq) ELSE NULL
    IN /\ build = "legacy"
       /\ CASE h = "mouse_handler" ->
                   mouse_handler(dev.status, dev.data, <<>>, irq_handler_eoi(irq))
            [] h = "keyboard_irq_handler" ->
                   keyboard_irq_handler(dev.scancode, irq_handler_eoi(irq))
            [] OTHER -> NoHandler(irq_handler_eoi(irq))
       /\ last' = [op |-> "interrupt", vec |-> v, who |-> h,
                   spurious |-> (h = "mouse_handler" /\ MouseSpurious(dev.status)),
                   cycle |-> mouse_cycle, data |-> DataRead(h, dev),
                   rdy |-> IF h = "keyboard_interrupt" THEN dev.rdy ELSE <<TRUE, TRUE>>,
                   ret |-> "none", prev |-> NULL, out |-> <<0, 0>>, resp |-> <<>>,
                   status |-> IF h = "mouse_handler" THEN dev.status ELSE 0]
       /\ in_service' = InServiceAfter(svc, port_writes', Len(port_writes'))
       /\ UNCHANGED <<build, cpu, setup_vars, iflag, thread, pic_mask, drivers, interrupt_handlers,
                      irq_handlers>>

\* irq_handler(regs) called with the PICs as they are
irq_handler(v, dev) ==
    /\ irq_handler_from(v, dev, in_service)
    /\ UNCHANGED keys_held

device_vars == <<timer_ticks, mouse_vars, handler, keyboard_state>>

ClearObs ==
    /\ port_writes' = <<>>
    /\ mouse_decoded' = 0
    /\ mouse_delivered' = <<>>
    /\ kbd_event' = NoEvent
    /\ kbd_delivered' = <<>>

\* (mutation: no int_no is rejected)
VectorOutOfRange_never(int_no) == FALSE

\* "if (int_no >= MAX_INTERRUPTS) return STATUS_INVALID_PARAM;"
VectorOutOfRange(int_no) == int_no >= MAX_INTERRUPTS

\* src: interrupt_register_handler(int_no, h); int_t is uint8_t
interrupt_register_handler(int_no, h) ==
    /\ build = "src"
    /\ interrupt_handlers' = IF VectorOutOfRange(int_no)
                             THEN interrupt_handlers
                             ELSE TableSet(interrupt_handlers, int_no, h)
    /\ last' = [NoLast EXCEPT !.op = "register", !.vec = int_no, !.who = h,
                              !.prev = TableGet(interrupt_handlers, int_no),
                              !.ret = IF VectorOutOfRange(int_no)
                                      THEN "STATUS_INVALID_PARAM"
                                      ELSE "STATUS_SUCCESS"]
    /\ ClearObs
    /\ UNCHANGED <<build, cpu, keys_held, in_service, setup_vars, iflag, thread, pic_mask, drivers, irq_handlers, device_vars>>

\* src: interrupt_unregister_handler(int_no)
interrupt_unregister_handler(int_no) ==
    /\ build = "src"
    /\ interrupt_handlers' = IF VectorOutOfRange(int_no)
                             THEN interrupt_handlers
                             ELSE TableSet(interrupt_handlers, int_no, NULL)
    /\ last' = [NoLast EXCEPT !.op = "unregister", !.vec = int_no,
                              !.prev = TableGet(interrupt_handlers, int_no),
                              !.ret = IF VectorOutOfRange(int_no)
                                      THEN "STATUS_INVALID_PARAM"
                                      ELSE "STATUS_SUCCESS"]
    /\ ClearObs
    /\ UNCHANGED <<build, cpu, keys_held, in_service, setup_vars, iflag, thread, pic_mask, drivers, irq_handlers, device_vars>>

\* legacy: irq_install_handler(irq, h)
irq_install_handler(irq, h) ==
    /\ build = "legacy"
    /\ irq_handlers' = IF irq >= 0 /\ irq < IRQ_COUNT
                       THEN TableSet(irq_handlers, irq, h)
                       ELSE irq_handlers
    /\ last' = [NoLast EXCEPT !.op = "register", !.vec = irq + 32, !.who = h,
                              !.prev = TableGet(irq_handlers, irq),
                              !.ret = "void"]
    /\ ClearObs
    /\ UNCHANGED <<build, cpu, keys_held, in_service, setup_vars, iflag, thread, pic_mask, drivers, interrupt_handlers, device_vars>>

\* legacy: irq_uninstall_handler(irq)
irq_uninstall_handler(irq) ==
    /\ build = "legacy"
    /\ irq_handlers' = IF irq >= 0 /\ irq < IRQ_COUNT
                       THEN TableSet(irq_handlers, irq, NULL)
                       ELSE irq_handlers
    /\ last' = [NoLast EXCEPT !.op = "unregister", !.vec = irq + 32,
                              !.prev = TableGet(irq_handlers, irq),
                              !.ret = "void"]
    /\ ClearObs
    /\ UNCHANGED <<build, cpu, keys_held, in_service, setup_vars, iflag, thread, pic_mask, drivers, interrupt_handlers, device_vars>>

\* register_mouse_handler(callback), both builds
register_mouse_handler(callback) ==
    /\ handler' = callback
    /\ last' = [NoLast EXCEPT !.op = "register_mouse_handler", !.who = callback]
    /\ ClearObs
    /\ UNCHANGED <<build, cpu, keys_held, in_service, setup_vars, iflag, thread, pic_mask, drivers, interrupt_handlers, irq_handlers, timer_ticks, mouse_vars,
                   keyboard_state>>

\* (mutation: the capacity test is off by one)
KeyboardListFull_off_by_one(ks) == ks.num_handlers > MAX_KEYBOARD_HANDLERS

\* "if (keyboard_state.num_handlers >= MAX_KEYBOARD_HANDLERS)"
KeyboardListFull(ks) == ks.num_handlers >= MAX_KEYBOARD_HANDLERS

\* the value keyboard_register_handler(h) returns
KeyboardRegisterResult(ks, h) ==
    IF h = NULL THEN "STATUS_INVALID_PARAM"
    ELSE IF KeyboardListFull(ks) THEN "STATUS_BUSY"
    ELSE "STATUS_SUCCESS"

\* a call of get_mouse_position(&x, &y), both builds
get_mouse_position_call ==
    /\ last' = [NoLast EXCEPT !.op = "get_mouse_position", !.ret = "void",
                              !.out = get_mouse_position]
    /\ ClearObs
    /\ UNCHANGED <<build, cpu, keys_held, in_service, setup_vars, iflag, thread, pic_mask, drivers, interrupt_handlers, irq_handlers, device_vars>>

\* src: keyboard_register_handler(h)
keyboard_register_handler_at(h, t) ==
    /\ build = "src"
    /\ keyboard_state' =
           IF KeyboardRegisterResult(keyboard_state, h) = "STATUS_SUCCESS"
           THEN [keyboard_state EXCEPT !.handlers[keyboard_state.num_handlers] = h,
                                       !.num_handlers = keyboard_state.num_handlers + 1]
           ELSE keyboard_state
    /\ last' = [NoLast EXCEPT !.op = "keyboard_register_handler", !.who = h,
                              !.ret = KeyboardRegisterResult(keyboard_state, h)]
    /\ ClearObs
    /\ thread' = t
    /\ UNCHANGED <<build, cpu, keys_held, in_service, setup_vars, iflag, pic_mask, drivers, interrupt_handlers, irq_handlers, timer_ticks, mouse_vars,
                   handler>>

\* keyboard_register_handler(h) called on its own
keyboard_register_handler(h) == keyboard_register_handler_at(h, thread)

\* index of the first of handlers[0 .. num_handlers-1] equal to h, or -1
KeyboardFind(ks, h) ==
    LET hits == {i \in 0..(ks.num_handlers - 1) : ks.handlers[i] = h}
    IN IF hits = {} THEN -1 ELSE CHOOSE i \in hits : \A j \in hits : i <= j

\* (mutation: the copy loop starts at the head of the array)
KeyboardShiftDown_from_head(ks, i) ==
    [j \in DOMAIN ks.handlers |->
        IF j < ks.num_handlers - 1 THEN ks.handlers[j + 1] ELSE ks.handlers[j]]

\* the handlers array after "Shift remaining handlers down" from index i: the
\* entries above i move down by one, the old last entry stays where it was
KeyboardShiftDown(ks, i) ==
    [j \in DOMAIN ks.handlers |->
        IF j >= i /\ j < ks.num_handlers - 1 THEN ks.handlers[j + 1] ELSE ks.handlers[j]]

\* src: keyboard_unregister_handler(h)
keyboard_unregister_handler(h) ==
    /\ build = "src"
    /\ keyboard_state' =
           IF KeyboardFind(keyboard_state, h) >= 0
           THEN [keyboard_state EXCEPT
                    !.handlers = KeyboardShiftDown(keyboard_state,
                                                   KeyboardFind(keyboard_state, h)),
                    !.num_handlers = keyboard_state.num_handlers - 1]
           ELSE keyboard_state
    /\ last' = [NoLast EXCEPT !.op = "keyboard_unregister_handler", !.who = h,
                              !.ret = "void"]
    /\ ClearObs
    /\ UNCHANGED <<build, cpu, keys_held, in_service, setup_vars, iflag, thread, pic_mask, drivers, interrupt_handlers, irq_handlers, timer_ticks, mouse_vars,
                   handler>>

\* --------------------------------------------------------- driver registry
\* A descriptor is known by its name string; "unnamed" is a descriptor whose name
\* pointer is NULL, NULL is the null descriptor pointer.
DrvName(drv) == IF drv = "unnamed" THEN NULL ELSE drv

num_drivers == Len(drivers)

\* (mutation: the name comparison loop is missing)
DriverExists_never(ds, drv) == FALSE

\* "Check if driver already exists": the strcmp loop of register_driver.  The src
\* build skips entries and arguments without a name; the legacy build is only
\* ever handed named descriptors.
DriverExists(ds, drv) ==
    \E i \in 1..Len(ds) :
        /\ DrvName(ds[i]) # NULL
        /\ DrvName(drv) # NULL
        /\ DrvName(ds[i]) = DrvName(drv)

\* (mutation: the capacity test is off by one)
DriverFull_off_by_one(ds) == Len(ds) > MAX_DRIVERS

\* "if (num_drivers >= MAX_DRIVERS)"
DriverFull(ds) == Len(ds) >= MAX_DRIVERS

\* the value register_driver(drv) returns
RegisterDriverResult(ds, drv) ==
    IF drv = NULL \/ DriverFull(ds) \/ DriverExists(ds, drv)
    THEN "DRIVER_ERROR"
    ELSE "DRIVER_OK"

\* register_driver(drv), both builds.  The legacy build dereferences drv and
\* passes drv->name to strcmp unchecked, so it is called with named descriptors
\* only.
register_driver(drv) ==
    /\ build = "legacy" => (drv # NULL /\ DrvName(drv) # NULL)
    /\ drivers' = IF RegisterDriverResult(drivers, drv) = "DRIVER_OK"
                  THEN Append(drivers, drv)
                  ELSE drivers
    /\ last' = [NoLast EXCEPT !.op = "register_driver", !.who = drv,
                              !.ret = RegisterDriverResult(drivers, drv)]
    /\ ClearObs
    /\ UNCHANGED <<build, cpu, keys_held, in_service, setup_vars, iflag, thread, pic_mask, interrupt_handlers, irq_handlers, device_vars>>

\* ------------------------------------------------------- keyboard bring-up
\* "v & ~bit" for a single-bit mask
ClearBit(v, bit) == IF TestBit(v, bit) THEN v - bit ELSE v

\* (mutation: pic_unmask_irq always writes the master's register)
PicUnmask_master_only(masks, irq) == <<ClearBit(masks[1], 2^(irq % 8)), masks[2]>>

\* pic_unmask_irq(irq): the mask registers after "value = read(port) & ~(1 << irq)"
\* is written back to the data port of the PIC that owns the line
PicUnmask(masks, irq) ==
    IF irq < 8
    THEN <<ClearBit(masks[1], 2^irq), masks[2]>>
    ELSE <<masks[1], ClearBit(masks[2], 2^(irq - 8))>>

\* pic_unmask_irq(irq): its port write
pic_unmask_irq(masks, irq) ==
    IF irq < 8
    THEN <<Out(PIC1_DATA, PicUnmask(masks, irq)[1])>>
    ELSE <<Out(PIC2_DATA, PicUnmask(masks, irq)[2])>>

\* keyboard_init: the first of its four keyboard_read_data() results that is not
\* the expected byte (a read timeout is -1), or 0 when all four are expected
KeyboardInitFail(resp) ==
    CASE resp[1] # KEYBOARD_RES_ACK -> 1
      [] resp[2] # KEYBOARD_RES_SELF_TEST_OK -> 2
      [] resp[3] # KEYBOARD_RES_ACK -> 3
      [] resp[4] # KEYBOARD_RES_ACK -> 4
      [] OTHER -> 0

\* src: keyboard_init(); t is where the caller goes on; rdy[i] says whether the i-th keyboard_send_data found
\* the input buffer drained, resp[i] is the i-th keyboard_read_data() result.
\* The result of keyboard_send_data is not looked at.
keyboard_init_at(rdy, resp, t) ==
    LET fail == KeyboardInitFail(resp)
    IN /\ build = "src"
       /\ keyboard_state' = [keyboard_state EXCEPT !.num_handlers = 0,
                                                   !.num_lock = FALSE,
                                                   !.caps_lock = FALSE,
                                                   !.scroll_lock = FALSE,
                                                   !.shift = FALSE,
                                                   !.ctrl = FALSE,
                                                   !.alt = FALSE]
       /\ interrupt_handlers' =
              IF fail = 0
              THEN TableSet(interrupt_handlers, IRQ_BASE + 1, "keyboard_interrupt")
              ELSE interrupt_handlers
       /\ pic_mask' = IF fail = 0 THEN PicUnmask(pic_mask, 1) ELSE pic_mask
       /\ port_writes' =
              keyboard_send_data(KEYBOARD_CMD_RESET, rdy[1])
                  \o (IF fail \in {0, 3, 4}
                      THEN keyboard_send_data(KEYBOARD_CMD_SET_DEFAULTS, rdy[2])
                      ELSE <<>>)
                  \o (IF fail \in {0, 4}
                      THEN keyboard_send_data(KEYBOARD_CMD_ENABLE, rdy[3])
                      ELSE <<>>)
                  \o (IF fail = 0 THEN pic_unmask_irq(pic_mask, 1) ELSE <<>>)
       /\ last' = [NoLast EXCEPT !.op = "keyboard_init", !.rdy = rdy, !.resp = resp,
                                 !.ret = IF fail = 0
                                         THEN "STATUS_SUCCESS"
                                         ELSE "STATUS_DEVICE_ERROR"]
       /\ mouse_decoded' = 0
       /\ mouse_delivered' = <<>>
       /\ kbd_event' = NoEvent
       /\ kbd_delivered' = <<>>
       /\ thread' = t
       /\ UNCHANGED <<build, cpu, keys_held, in_service, setup_vars, iflag, drivers, irq_handlers, timer_ticks, mouse_vars,
                      handler>>

\* keyboard_init() called on its own
keyboard_init(rdy, resp) == keyboard_init_at(rdy, resp, thread)

\* ---------------------------------------------------------- mouse bring-up
\* "v | bit" for a single-bit mask
SetBit(v, bit) == IF TestBit(v, bit) THEN v ELSE v + bit

\* (mutation: pic_mask_irq leaves the mask register as it was)
PicMask_noop(masks, irq) == masks

\* pic_mask_irq(irq): the mask registers after "value = read(port) | (1 << irq)"
\* is written back
PicMask(masks, irq) ==
    IF irq < 8
    THEN <<SetBit(masks[1], 2^irq), masks[2]>>
    ELSE <<masks[1], SetBit(masks[2], 2^(irq - 8))>>

\* pic_mask_irq(irq): its port write
pic_mask_irq(masks, irq) ==
    IF irq < 8
    THEN <<Out(PIC1_DATA, PicMask(masks, irq)[1])>>
    ELSE <<Out(PIC2_DATA, PicMask(masks, irq)[2])>>

\* whether the controller delivers line irq: its mask bit is clear
PicLineOpen(masks, irq) ==
    IF irq < 8 THEN ~TestBit(masks[1], 2^irq) ELSE ~TestBit(masks[2], 2^(irq - 8))

\* the mask registers after the first k port writes of a sequence: an outb to a
\* PIC data port replaces that controller's mask
RECURSIVE PicMaskAfter(_, _, _)
PicMaskAfter(masks, writes, k) ==
    IF k = 0 THEN masks
    ELSE LET before == PicMaskAfter(masks, writes, k - 1)
             w == writes[k]
         IN CASE w[1] = "out" /\ w[2] = PIC1_DATA -> <<w[3], before[2]>>
              [] w[1] = "out" /\ w[2] = PIC2_DATA -> <<before[1], w[3]>>
              [] OTHER -> before

\* mouse_write_cmd(cmd): the write follows mouse_wait(1) whether or not the
\* wait timed out
mouse_write_cmd(cmd) == <<Out(MOUSE_CMD, cmd)>>

\* mouse_write(data)
mouse_write(data) == <<Out(MOUSE_CMD, MOUSE_WRITE_MOUSE), Out(MOUSE_PORT, data)>>

\* init_mouse: "status |= 0x02; status &= ~0x10; status |= 0x20" on a uint8_t
MouseConfigByte(status) == SetBit(ClearBit(SetBit(status, 2), 16), 32)

\* (mutation: the self-test byte is not looked at)
MouseInitFail_no_self_test(resp) ==
    CASE resp[1] # MOUSE_ACK -> 1
      [] resp[2] # MOUSE_ACK -> 2
      [] resp[4] # MOUSE_ACK -> 4
      [] resp[5] # MOUSE_ACK -> 5
      [] OTHER -> 0

\* init_mouse: the first of its five mouse_read_timeout() results (-1 is a
\* timeout) that makes it return, or 0 when it runs to the end.  Steps 1, 2, 4, 5
\* are mouse_expect_ack(), step 3 is the self-test read.
MouseInitFail(resp) ==
    CASE resp[1] # MOUSE_ACK -> 1
      [] resp[2] # MOUSE_ACK -> 2
      [] resp[3] # MOUSE_SELF_TEST -> 3
      [] resp[4] # MOUSE_ACK -> 4
      [] resp[5] # MOUSE_ACK -> 5
      [] OTHER -> 0

\* src: init_mouse(); t is where the caller goes on; status is the controller command byte mouse_read() returns,
\* resp[i] the i-th mouse_read_timeout() result
init_mouse_at(status, resp, t) ==
    LET fail == MouseInitFail(resp)
        masked == PicMask(pic_mask, MOUSE_IRQ)
    IN /\ build = "src"
       /\ interrupt_handlers' =
              IF fail = 0
              THEN TableSet(interrupt_handlers, IRQ_BASE + MOUSE_IRQ, "mouse_handler")
              ELSE interrupt_handlers
       /\ pic_mask' = IF fail = 0 THEN PicUnmask(masked, MOUSE_IRQ) ELSE masked
       /\ drivers' = IF fail = 0 /\ RegisterDriverResult(drivers, "ps2_mouse") = "DRIVER_OK"
                     THEN Append(drivers, "ps2_mouse")
                     ELSE drivers
       /\ port_writes' =
              pic_mask_irq(pic_mask, MOUSE_IRQ)
                  \o mouse_write_cmd(MOUSE_ENABLE)
                  \o mouse_write_cmd(MOUSE_GET_STATUS)
                  \o mouse_write_cmd(MOUSE_SET_STATUS)
                  \o <<Out(MOUSE_PORT, MouseConfigByte(status))>>
                  \o mouse_write(MOUSE_DISABLE)
                  \o (IF fail # 1 THEN mouse_write(MOUSE_RESET) ELSE <<>>)
                  \o (IF fail \in {0, 4, 5} THEN mouse_write(MOUSE_DEFAULT) ELSE <<>>)
                  \o (IF fail \in {0, 5} THEN mouse_write(MOUSE_ENABLE_PACKET) ELSE <<>>)
                  \o (IF fail = 0 THEN pic_unmask_irq(masked, MOUSE_IRQ) ELSE <<>>)
       /\ last' = [NoLast EXCEPT !.op = "init_mouse", !.data = status, !.resp = resp,
                                 !.ret = "void"]
       /\ mouse_decoded' = 0
       /\ mouse_delivered' = <<>>
       /\ kbd_event' = NoEvent
       /\ kbd_delivered' = <<>>
       /\ thread' = t
       /\ UNCHANGED <<build, cpu, keys_held, in_service, setup_vars, iflag, irq_handlers, device_vars>>

\* init_mouse() called on its own
init_mouse(status, resp) == init_mouse_at(status, resp, thread)

\* ------------------------------------------- registry critical section
\* The steps of interrupt_register_handler / interrupt_unregister_handler, with
\* interrupts able to arrive between any two of them while the flag is set.
\* thread.who = NULL is the unregister call.

\* (mutation: interrupt_restore enables interrupts whatever was saved)
InterruptRestore_always_enable(enabled, f) == TRUE

\* interrupt_restore(enabled): "if (enabled) interrupt_enable();"
InterruptRestore(enabled, f) == IF enabled THEN TRUE ELSE f

CritFrame ==
    /\ ClearObs
    /\ UNCHANGED <<build, cpu, keys_held, in_service, setup_vars, pic_mask, drivers, irq_handlers, device_vars>>

\* the call and its range check; an out-of-range int_no returns at once
reg_call(int_no, h) ==
    /\ build = "src"
    /\ thread.pc = "main_loop"
    /\ thread' = IF int_no >= MAX_INTERRUPTS
                 THEN thread
                 ELSE [thread EXCEPT !.pc = "reg_save", !.vec = int_no, !.who = h]
    /\ last' = [NoLast EXCEPT !.op = "reg_call", !.vec = int_no, !.who = h,
                              !.ret = IF int_no >= MAX_INTERRUPTS
                                      THEN "STATUS_INVALID_PARAM"
                                      ELSE "none"]
    /\ CritFrame
    /\ UNCHANGED <<iflag, interrupt_handlers>>

\* interrupt_save_disable: "bool enabled = interrupt_are_enabled();"
reg_save ==
    /\ thread.pc = "reg_save"
    /\ thread' = [thread EXCEPT !.pc = "reg_cli", !.saved = iflag]
    /\ last' = [NoLast EXCEPT !.op = "reg_save", !.vec = thread.vec, !.who = thread.who]
    /\ CritFrame
    /\ UNCHANGED <<iflag, interrupt_handlers>>

\* interrupt_save_disable: "interrupt_disable();"
reg_cli ==
    /\ thread.pc = "reg_cli"
    /\ iflag' = FALSE
    /\ thread' = [thread EXCEPT !.pc = "reg_write"]
    /\ last' = [NoLast EXCEPT !.op = "reg_cli", !.vec = thread.vec, !.who = thread.who]
    /\ CritFrame
    /\ UNCHANGED interrupt_handlers

\* "interrupt_handlers[int_no] = handler;" (NULL for unregister)
reg_write ==
    /\ thread.pc = "reg_write"
    /\ interrupt_handlers' = TableSet(interrupt_handlers, thread.vec, thread.who)
    /\ thread' = [thread EXCEPT !.pc = "reg_restore"]
    /\ last' = [NoLast EXCEPT !.op = "reg_write", !.vec = thread.vec, !.who = thread.who,
                              !.prev = TableGet(interrupt_handlers, thread.vec)]
    /\ CritFrame
    /\ UNCHANGED iflag

\* "interrupt_restore(__prev);" and "return STATUS_SUCCESS;"
reg_restore ==
    /\ thread.pc = "reg_restore"
    /\ iflag' = InterruptRestore(thread.saved, iflag)
    /\ thread' = MainLoop
    /\ last' = [NoLast EXCEPT !.op = "reg_restore", !.vec = thread.vec,
                              !.who = thread.who, !.ret = "STATUS_SUCCESS"]
    /\ CritFrame
    /\ UNCHANGED interrupt_handlers

\* ------------------------------------------------------- handshake polling
\* One step of a bring-up routine is one wait loop: "in" polls the status port
\* until the input-buffer-full bit (0x02) is clear, "out" until the
\* output-buffer-full bit (0x01) is set, "flush" reads the data port for as long
\* as the output-buffer-full bit is set.  `checked`: the byte read after the wait
\* is compared and a mismatch returns; `fatal`: running out of polls returns.
WaitIn == [kind |-> "in", checked |-> FALSE, fatal |-> FALSE]
WaitOut == [kind |-> "out", checked |-> FALSE, fatal |-> FALSE]
WaitAck == [kind |-> "out", checked |-> TRUE, fatal |-> TRUE]
WaitAckLegacy == [kind |-> "out", checked |-> TRUE, fatal |-> FALSE]
Flush == [kind |-> "flush", checked |-> FALSE, fatal |-> FALSE]

\* the wait loops of each bring-up routine, in program order
HandshakeProgram(b, routine) ==
    CASE b = "src" /\ routine = "keyboard_init" ->
             <<WaitIn, WaitAck, WaitAck, WaitIn, WaitAck, WaitIn, WaitAck>>
      [] b = "src" /\ routine = "init_mouse" ->
             <<WaitIn, WaitIn, WaitOut, WaitIn, WaitIn,
               WaitIn, WaitIn, WaitAck,
               WaitIn, WaitIn, WaitAck, WaitAck,
               WaitIn, WaitIn, WaitAck,
               WaitIn, WaitIn, WaitAck>>
      [] b = "legacy" /\ routine = "init_keyboard" ->
             <<WaitIn, Flush, WaitIn, WaitAckLegacy, WaitAckLegacy,
               WaitIn, WaitAckLegacy, WaitIn, WaitAckLegacy, WaitIn>>
      [] b = "legacy" /\ routine = "init_mouse" ->
             <<WaitIn, WaitIn, WaitOut, WaitIn, WaitIn,
               WaitIn, WaitIn, WaitOut,
               WaitIn, WaitIn, WaitOut>>

HandshakeRoutines(b) ==
    IF b = "src" THEN {"keyboard_init", "init_mouse"} ELSE {"init_keyboard", "init_mouse"}

\* the routine is entered: first wait loop, full poll budget
PollStart(routine) ==
    [pc |-> routine, step |-> 1, timeout |-> PollBudget, vec |-> 0, who |-> NULL,
     saved |-> FALSE]

Returned == [MainLoop EXCEPT !.pc = "returned"]

Polling == thread.pc \notin {"main_loop", "returned"} /\ thread.step > 0

PollStepNow == HandshakeProgram(build, thread.pc)[thread.step]

\* the wait loop is left and the routine goes on: next loop, or its end
PollAdvance ==
    IF thread.step = Len(HandshakeProgram(build, thread.pc))
    THEN Returned
    ELSE [thread EXCEPT !.step = thread.step + 1, !.timeout = PollBudget]

\* whether a status byte ends the wait
PollSatisfied(kind, status) ==
    IF kind = "in" THEN ~TestBit(status, 2) ELSE TestBit(status, 1)

PollFrame ==
    /\ ClearObs
    /\ UNCHANGED <<build, cpu, keys_held, in_service, setup_vars, iflag, pic_mask, drivers, interrupt_handlers, irq_handlers,
                   device_vars>>

\* one iteration of "while (timeout--) { if (status test) return; }" with
\* timeout > 0: one read of the status port; match tells whether the byte read
\* after a successful wait is the expected one
poll_wait(status, match) ==
    /\ Polling
    /\ PollStepNow.kind \in {"in", "out"}
    /\ thread.timeout > 0
    /\ thread' = IF PollSatisfied(PollStepNow.kind, status)
                 THEN IF PollStepNow.checked /\ ~match THEN Returned ELSE PollAdvance
                 ELSE [thread EXCEPT !.timeout = thread.timeout - 1]
    /\ last' = [NoLast EXCEPT !.op = "poll_wait", !.data = status]
    /\ PollFrame

\* "while (timeout--)" with timeout = 0: the loop ends without a status read.
\* A fatal wait returns from the routine; the legacy keyboard read goes on to read
\* and compare the data port.
poll_expire(match) ==
    /\ Polling
    /\ PollStepNow.kind \in {"in", "out"}
    /\ thread.timeout = 0
    /\ thread' = IF PollStepNow.fatal \/ (PollStepNow.checked /\ ~match)
                 THEN Returned
                 ELSE PollAdvance
    /\ last' = [NoLast EXCEPT !.op = "poll_expire"]
    /\ PollFrame

\* legacy init_keyboard: one iteration of
\* "while (inb(KEYBOARD_STATUS_PORT) & 0x01) { inb(KEYBOARD_DATA_PORT); io_wait(); }"
poll_flush(status) ==
    /\ Polling
    /\ PollStepNow.kind = "flush"
    /\ thread' = IF TestBit(status, 1) THEN thread ELSE PollAdvance
    /\ last' = [NoLast EXCEPT !.op = "poll_flush", !.data = status]
    /\ port_writes' = IF TestBit(status, 1) THEN <<Out(POST_PORT, 0)>> ELSE <<>>
    /\ mouse_decoded' = 0
    /\ mouse_delivered' = <<>>
    /\ kbd_event' = NoEvent
    /\ kbd_delivered' = <<>>
    /\ UNCHANGED <<build, cpu, keys_held, in_service, setup_vars, iflag, pic_mask, drivers, interrupt_handlers, irq_handlers,
                   device_vars>>

\* ------------------------------------------------------------ kernel_main
\* (mutation: interrupts are enabled before the mouse is brought up)
KernelMainProgram_sti_before_mouse ==
    <<"idt_install", "irq_init", "pic_init", "timer_init", "keyboard_init",
      "keyboard_register_handler", "sti", "init_mouse", "window_setup">>

\* the statements of kernel_main that touch the interrupt system, in program
\* order; "window_setup" stands for vga_init, window_init and the two
\* window_create blocks
KernelMainProgram ==
    <<"idt_install", "irq_init", "pic_init", "timer_init", "keyboard_init",
      "keyboard_register_handler", "init_mouse", "window_setup", "sti">>

KernelMainAt(i) == [MainLoop EXCEPT !.pc = "kernel_main", !.step = i]

\* the statement kernel_main is about to execute
KernelMainNow ==
    IF thread.pc = "kernel_main" THEN KernelMainProgram[thread.step] ELSE "none"

\* after the last statement kernel_main is in its "while (1)" loop
KernelMainNext ==
    IF thread.step = Len(KernelMainProgram)
    THEN MainLoop
    ELSE KernelMainAt(thread.step + 1)

\* idt_install() = interrupt_init(): clears the registry, fills and loads the IDT
idt_install ==
    /\ KernelMainNow = "idt_install"
    /\ interrupt_handlers' = EmptyTable
    /\ idt_loaded' = TRUE
    /\ thread' = KernelMainNext
    /\ last' = [NoLast EXCEPT !.op = "idt_install"]
    /\ ClearObs
    /\ UNCHANGED <<build, cpu, keys_held, in_service, pic_base, iflag, pic_mask, drivers, irq_handlers, device_vars>>

\* src irq_init(): logs only
irq_init ==
    /\ KernelMainNow = "irq_init"
    /\ thread' = KernelMainNext
    /\ last' = [NoLast EXCEPT !.op = "irq_init"]
    /\ ClearObs
    /\ UNCHANGED <<build, cpu, keys_held, in_service, setup_vars, iflag, pic_mask, drivers, interrupt_handlers,
                   irq_handlers, device_vars>>

\* (mutation: the remap issues its eight command words back to back)
PicInitWrites_no_delay ==
    <<Out(PIC1_COMMAND, ICW1_INIT + ICW1_ICW4),
      Out(PIC2_COMMAND, ICW1_INIT + ICW1_ICW4),
      Out(PIC1_DATA, IRQ_BASE),
      Out(PIC2_DATA, IRQ_BASE + 8),
      Out(PIC1_DATA, 4),
      Out(PIC2_DATA, 2),
      Out(PIC1_DATA, ICW4_8086),
      Out(PIC2_DATA, ICW4_8086),
      Out(PIC1_DATA, PicInitMask("src")[1]),
      Out(PIC2_DATA, PicInitMask("src")[2])>>

\* src pic_init(): the port writes of the remap and of the two masks
PicInitWrites ==
    <<Out(PIC1_COMMAND, ICW1_INIT + ICW1_ICW4), IoWaitSrc,
      Out(PIC2_COMMAND, ICW1_INIT + ICW1_ICW4), IoWaitSrc,
      Out(PIC1_DATA, IRQ_BASE), IoWaitSrc,
      Out(PIC2_DATA, IRQ_BASE + 8), IoWaitSrc,
      Out(PIC1_DATA, 4), IoWaitSrc,
      Out(PIC2_DATA, 2), IoWaitSrc,
      Out(PIC1_DATA, ICW4_8086), IoWaitSrc,
      Out(PIC2_DATA, ICW4_8086), IoWaitSrc,
      Out(PIC1_DATA, PicInitMask("src")[1]),
      Out(PIC2_DATA, PicInitMask("src")[2])>>

\* src pic_init(); ICW1 clears the in-service registers; t is where the caller
\* goes on
pic_init_src(t) ==
    /\ build = "src"
    /\ pic_base' = PicInitBase("src")
    /\ pic_mask' = PicInitMask("src")
    /\ in_service' = {}
    /\ thread' = t
    /\ last' = [NoLast EXCEPT !.op = "pic_init"]
    /\ port_writes' = PicInitWrites
    /\ mouse_decoded' = 0
    /\ mouse_delivered' = <<>>
    /\ kbd_event' = NoEvent
    /\ kbd_delivered' = <<>>
    /\ UNCHANGED <<build, cpu, keys_held, idt_loaded, iflag, drivers, interrupt_handlers, irq_handlers,
                   device_vars>>

\* "pic_init();" of kernel_main
pic_init ==
    /\ KernelMainNow = "pic_init"
    /\ pic_init_src(KernelMainNext)

\* legacy pic_init(): pic_remap() and the two mask writes, each followed by
\* io_wait()
PicInitWritesLegacy ==
    <<Out(PIC1_COMMAND, ICW1_INIT + ICW1_ICW4), IoWaitLegacy,
      Out(PIC2_COMMAND, ICW1_INIT + ICW1_ICW4), IoWaitLegacy,
      Out(PIC1_DATA, 32), IoWaitLegacy,
      Out(PIC2_DATA, 40), IoWaitLegacy,
      Out(PIC1_DATA, 4), IoWaitLegacy,
      Out(PIC2_DATA, 2), IoWaitLegacy,
      Out(PIC1_DATA, ICW4_8086), IoWaitLegacy,
      Out(PIC2_DATA, ICW4_8086), IoWaitLegacy,
      Out(PIC1_DATA, 0), IoWaitLegacy,
      Out(PIC2_DATA, 0), IoWaitLegacy>>

pic_init_legacy ==
    /\ build = "legacy"
    /\ pic_base' = PicInitBase("legacy")
    /\ pic_mask' = PicInitMask("legacy")
    /\ in_service' = {}
    /\ last' = [NoLast EXCEPT !.op = "pic_init"]
    /\ port_writes' = PicInitWritesLegacy
    /\ mouse_decoded' = 0
    /\ mouse_delivered' = <<>>
    /\ kbd_event' = NoEvent
    /\ kbd_delivered' = <<>>
    /\ UNCHANGED <<build, cpu, keys_held, idt_loaded, iflag, thread, drivers, interrupt_handlers, irq_handlers,
                   device_vars>>

\* src: pic_mask_irq(irq) called on its own
pic_mask_irq_call(irq) ==
    /\ build = "src"
    /\ pic_mask' = PicMask(pic_mask, irq)
    /\ last' = [NoLast EXCEPT !.op = "pic_mask_irq", !.vec = irq]
    /\ port_writes' = pic_mask_irq(pic_mask, irq)
    /\ mouse_decoded' = 0
    /\ mouse_delivered' = <<>>
    /\ kbd_event' = NoEvent
    /\ kbd_delivered' = <<>>
    /\ UNCHANGED <<build, cpu, keys_held, in_service, setup_vars, iflag, thread, drivers, interrupt_handlers,
                   irq_handlers, device_vars>>

\* src: pic_unmask_irq(irq) called on its own
pic_unmask_irq_call(irq) ==
    /\ build = "src"
    /\ pic_mask' = PicUnmask(pic_mask, irq)
    /\ last' = [NoLast EXCEPT !.op = "pic_unmask_irq", !.vec = irq]
    /\ port_writes' = pic_unmask_irq(pic_mask, irq)
    /\ mouse_decoded' = 0
    /\ mouse_delivered' = <<>>
    /\ kbd_event' = NoEvent
    /\ kbd_delivered' = <<>>
    /\ UNCHANGED <<build, cpu, keys_held, in_service, setup_vars, iflag, thread, drivers, interrupt_handlers,
                   irq_handlers, device_vars>>

\* src: pic_send_eoi(irq) called on its own
pic_send_eoi_call(irq) ==
    /\ build = "src"
    /\ in_service' = InServiceAfter(in_service, pic_send_eoi(irq), Len(pic_send_eoi(irq)))
    /\ last' = [NoLast EXCEPT !.op = "pic_send_eoi", !.vec = irq]
    /\ port_writes' = pic_send_eoi(irq)
    /\ mouse_decoded' = 0
    /\ mouse_delivered' = <<>>
    /\ kbd_event' = NoEvent
    /\ kbd_delivered' = <<>>
    /\ UNCHANGED <<build, cpu, keys_held, setup_vars, pic_mask, iflag, thread, drivers, interrupt_handlers,
                   irq_handlers, device_vars>>

\* timer_init(): programs the PIT and installs timer_callback on vector 32
timer_init ==
    /\ KernelMainNow = "timer_init"
    /\ interrupt_handlers' = TableSet(interrupt_handlers, 32, "timer_callback")
    /\ thread' = KernelMainNext
    /\ last' = [NoLast EXCEPT !.op = "timer_init", !.vec = 32, !.who = "timer_callback"]
    /\ port_writes' =
           <<Out(PIT_COMMAND, 54),
             Out(PIT_CHANNEL0, LowBits(PIT_FREQUENCY \div TIMER_FREQUENCY, 256)),
             Out(PIT_CHANNEL0, LowBits((PIT_FREQUENCY \div TIMER_FREQUENCY) \div 256, 256))>>
    /\ mouse_decoded' = 0
    /\ mouse_delivered' = <<>>
    /\ kbd_event' = NoEvent
    /\ kbd_delivered' = <<>>
    /\ UNCHANGED <<build, cpu, keys_held, in_service, setup_vars, iflag, pic_mask, drivers, irq_handlers, device_vars>>

\* (mutation: kernel_main goes on whatever keyboard_init returned)
AfterKeyboardInit_ignore_failure(fail) == KernelMainNext

\* where kernel_main goes after "if (keyboard_init() != STATUS_SUCCESS) return;"
AfterKeyboardInit(fail) == IF fail = 0 THEN KernelMainNext ELSE Returned

\* "if (keyboard_init() != STATUS_SUCCESS) { DEBUG_ERROR(...); return; }"
kernel_keyboard_init(rdy, resp) ==
    /\ KernelMainNow = "keyboard_init"
    /\ keyboard_init_at(rdy, resp, AfterKeyboardInit(KeyboardInitFail(resp)))

\* "if (keyboard_register_handler(keyboard_handler) != STATUS_SUCCESS) return;"
kernel_keyboard_register ==
    /\ KernelMainNow = "keyboard_register_handler"
    /\ keyboard_register_handler_at(
           "keyboard_handler",
           IF KeyboardRegisterResult(keyboard_state, "keyboard_handler") = "STATUS_SUCCESS"
           THEN KernelMainNext
           ELSE Returned)

\* "init_mouse();"
kernel_init_mouse(status, resp) ==
    /\ KernelMainNow = "init_mouse"
    /\ init_mouse_at(status, resp, KernelMainNext)

\* vga_init, window_init, window_create: nothing of the interrupt system changes
window_setup ==
    /\ KernelMainNow = "window_setup"
    /\ thread' = KernelMainNext
    /\ last' = [NoLast EXCEPT !.op = "window_setup"]
    /\ ClearObs
    /\ UNCHANGED <<build, cpu, keys_held, in_service, setup_vars, iflag, pic_mask, drivers, interrupt_handlers,
                   irq_handlers, device_vars>>

\* asm volatile("sti")
sti ==
    /\ KernelMainNow = "sti"
    /\ iflag' = TRUE
    /\ thread' = KernelMainNext
    /\ last' = [NoLast EXCEPT !.op = "sti"]
    /\ ClearObs
    /\ UNCHANGED <<build, cpu, keys_held, in_service, setup_vars, pic_mask, drivers, interrupt_handlers, irq_handlers,
                   device_vars>>

\* the vector the PICs raise for line n as they are programmed now
PicVectorNow(n) == IF n < 8 THEN pic_base[1] + n ELSE pic_base[2] + (n - 8)

\* the CPU takes an interrupt on line n: its flag is set, the PICs pass the
\* request and set the in-service bits, and the gate leads to interrupt_handler
raise_interrupt(n, dev) ==
    /\ iflag
    /\ PicCanRaise(pic_mask, in_service, n)
    /\ interrupt_handler_from(PicVectorNow(n), dev, in_service \cup PicRaised(n))

\* the same while no key changes on the keyboard
hardware_interrupt(n, dev) ==
    /\ raise_interrupt(n, dev)
    /\ UNCHANGED keys_held

\* --------------------------------------------------------- initial states
\* keyboard_state = {0}
KeyboardState0 ==
    [num_lock |-> FALSE, caps_lock |-> FALSE, scroll_lock |-> FALSE,
     shift |-> FALSE, ctrl |-> FALSE, alt |-> FALSE,
     handlers |-> [i \in 0..(MAX_KEYBOARD_HANDLERS - 1) |-> NULL],
     num_handlers |-> 0]

\* the statics as the loader leaves them, registries as given
Statics(b, ih, lh) ==
    /\ build = b
    /\ interrupt_handlers = ih
    /\ irq_handlers = lh
    /\ timer_ticks = 0
    /\ mouse_x = 0
    /\ mouse_y = 0
    /\ mouse_cycle = 0
    /\ mouse_packet = [i \in 0..2 |-> 0]
    /\ handler = NULL
    /\ keyboard_state = KeyboardState0
    /\ drivers = <<>>
    /\ in_service = {}
    /\ cpu = NoCpu
    /\ keys_held = {}
    /\ last = NoLast
    /\ port_writes = <<>>
    /\ mouse_decoded = 0
    /\ mouse_delivered = <<>>
    /\ kbd_event = NoEvent
    /\ kbd_delivered = <<>>

\* registries as interrupt_init / irq_init leave them, the PICs as pic_init
\* leaves them, the IDT loaded; f is the interrupt flag and t the position of
\* the non-interrupt code
BootStateAt(b, ih, lh, f, t) ==
    /\ Statics(b, ih, lh)
    /\ pic_mask = PicInitMask(b)
    /\ pic_base = PicInitBase(b)
    /\ idt_loaded = TRUE
    /\ iflag = f
    /\ thread = t

\* the same with kernel_main in its main loop, interrupts enabled
BootState(b, ih, lh) == BootStateAt(b, ih, lh, TRUE, MainLoop)

Init == \E b \in {"src", "legacy"} : BootState(b, EmptyTable, EmptyTable)

\* ------------------------------------------------- Spec: interrupt dispatch
\* the calls the two kernels make to install handlers
SrcInstallSites ==
    {<<32, "timer_callback">>, <<IRQ_BASE + 1, "keyboard_interrupt">>,
     <<IRQ_BASE + MOUSE_IRQ, "mouse_handler">>}

LegacyInstallSites == {<<MOUSE_IRQ, "mouse_handler">>, <<1, "keyboard_irq_handler">>}

Readiness == {<<TRUE, TRUE>>, <<TRUE, FALSE>>, <<FALSE, TRUE>>, <<FALSE, FALSE>>}

\* what the devices can answer during one delivery to handler h
IrqDevices(h) ==
    CASE h = "mouse_handler" ->
             [status : StatusBytes, data : IrqMouseBytes, scancode : {0},
              rdy : {<<TRUE, TRUE>>}]
      [] h \in {"keyboard_interrupt", "keyboard_irq_handler"} ->
             {d \in [status : {1}, data : {0}, scancode : IrqScancodes, rdy : Readiness] :
                 KeyboardLedResync(d.scancode) \/ d.rdy = <<TRUE, TRUE>>}
      [] OTHER -> [status : {1}, data : {0}, scancode : {0}, rdy : {<<TRUE, TRUE>>}]

RegisterSrc == \E site \in SrcInstallSites : interrupt_register_handler(site[1], site[2])

UnregisterSrc == \E site \in SrcInstallSites : interrupt_unregister_handler(site[1])

DeliverSrc ==
    \E v \in IdtVectors :
        \E dev \in IrqDevices(TableGet(interrupt_handlers, v)) : interrupt_handler(v, dev)

InstallLegacy == \E site \in LegacyInstallSites : irq_install_handler(site[1], site[2])

UninstallLegacy == \E site \in LegacyInstallSites : irq_uninstall_handler(site[1])

DeliverLegacy ==
    \E v \in 32..47 :
        \E dev \in IrqDevices(TableGet(irq_handlers, v - 32)) : irq_handler(v, dev)

Next ==
    \/ RegisterSrc
    \/ UnregisterSrc
    \/ DeliverSrc
    \/ InstallLegacy
    \/ UninstallLegacy
    \/ DeliverLegacy

Spec == Init /\ [][Next]_vars

\* ------------------------------------------- SpecLines: from line to handler
\* the vector the PICs raise for hardware line n once pic_init has run
PicVector(b, n) ==
    IF n < 8 THEN PicInitBase(b)[1] + n ELSE PicInitBase(b)[2] + (n - 8)

\* interrupt_init: idt_set_gate(IdtIrqGates[k + 1], irq<k>, ...) for k = 0..15
IdtIrqGates == <<32, 33, 34, 35, 36, 37, 38, 39, 40, 41, 42, 43, 44, 45, 46, 47>>

\* the entry stub irq<k> that the gate of vector v points to
IdtStub(v) == CHOOSE k \in 0..15 : IdtIrqGates[k + 1] = v

\* (mutation: the stub of line 12 pushes the number of line 13)
IrqStubPush_mouse_shifted ==
    <<32, 33, 34, 35, 36, 37, 38, 39, 40, 41, 42, 43, 45, 45, 46, 47>>

\* "IRQ k, v": the interrupt number the stub irq<k> pushes (same table in both
\* assembly files)
IrqStubPush == <<32, 33, 34, 35, 36, 37, 38, 39, 40, 41, 42, 43, 44, 45, 46, 47>>

\* the int_no the dispatch routine sees for an interrupt on hardware line n
LineVector(b, n) == IrqStubPush[IdtStub(PicVector(b, n)) + 1]

LineIrqSrc ==
    \E n \in 0..15 :
        \E dev \in IrqDevices(TableGet(interrupt_handlers, LineVector("src", n))) :
            interrupt_handler(LineVector("src", n), dev)

LineIrqLegacy ==
    \E n \in 0..15 :
        \E dev \in IrqDevices(TableGet(irq_handlers, LineVector("legacy", n) - 32)) :
            irq_handler(LineVector("legacy", n), dev)

NextLines ==
    \/ RegisterSrc
    \/ InstallLegacy
    \/ LineIrqSrc
    \/ LineIrqLegacy

SpecLines == Init /\ [][NextLines]_vars

\* ------------------------------------------------ SpecMouse: mouse decoder
\* after init_mouse has installed mouse_handler on line 12
InitMouse ==
    \E b \in {"src", "legacy"} :
        BootState(b,
                  IF b = "src"
                  THEN TableSet(EmptyTable, IRQ_BASE + MOUSE_IRQ, "mouse_handler")
                  ELSE EmptyTable,
                  IF b = "legacy"
                  THEN TableSet(EmptyTable, MOUSE_IRQ, "mouse_handler")
                  ELSE EmptyTable)

MouseDevices ==
    [status : StatusBytes, data : MouseBytes, scancode : {0}, rdy : {<<TRUE, TRUE>>}]

MouseIrqSrc == \E dev \in MouseDevices : interrupt_handler(IRQ_BASE + MOUSE_IRQ, dev)

MouseIrqLegacy == \E dev \in MouseDevices : irq_handler(IRQ_BASE + MOUSE_IRQ, dev)

MouseSubscribe == \E cb \in {NULL, "mouse_consumer"} : register_mouse_handler(cb)

MouseQuery == get_mouse_position_call

NextMouse ==
    \/ MouseIrqSrc
    \/ MouseIrqLegacy
    \/ MouseSubscribe
    \/ MouseQuery

SpecMouse == InitMouse /\ [][NextMouse]_vars

\* ------------------------------------------------ SpecKbd: keyboard decoder
\* after keyboard_init has installed keyboard_interrupt on vector 33
InitKbd ==
    BootState("src",
              TableSet(EmptyTable, IRQ_BASE + KEYBOARD_IRQ, "keyboard_interrupt"),
              EmptyTable)

\* the controller's readiness matters only when the LED exchange runs
KbdDevices ==
    {d \in [status : {1}, data : {0}, scancode : Scancodes, rdy : Readiness] :
        KeyboardLedResync(d.scancode) \/ d.rdy = <<TRUE, TRUE>>}

KbdIrq == \E dev \in KbdDevices : interrupt_handler(IRQ_BASE + KEYBOARD_IRQ, dev)

\* kernel_main subscribes its keyboard_handler once
KbdSubscribe ==
    /\ keyboard_state.num_handlers = 0
    /\ keyboard_register_handler("keyboard_handler")

NextKbd ==
    \/ KbdIrq
    \/ KbdSubscribe

SpecKbd == InitKbd /\ [][NextKbd]_vars

\* ------------------------------ SpecKeys: keys going down and up, one by one
\* left shift, right shift, left ctrl and the letter key of 0x1E
TypedKeys == {42, 54, 29, 30}

\* the keyboard sends the make code of a key that goes down, or of a held key
\* that repeats, and the interrupt is taken
key_make(c) ==
    /\ keys_held' = keys_held \cup {c}
    /\ raise_interrupt(KEYBOARD_IRQ,
                       [status |-> 1, data |-> 0, scancode |-> c, rdy |-> <<TRUE, TRUE>>])

\* a held key goes up: the keyboard sends its break code (make code | 0x80)
key_break(c) ==
    /\ c \in keys_held
    /\ keys_held' = keys_held \ {c}
    /\ raise_interrupt(KEYBOARD_IRQ,
                       [status |-> 1, data |-> 0, scancode |-> c + 128, rdy |-> <<TRUE, TRUE>>])

KeyMake == \E c \in TypedKeys : key_make(c)

KeyBreak == \E c \in TypedKeys : key_break(c)

NextKeys ==
    \/ KeyMake
    \/ KeyBreak
    \/ KbdSubscribe

SpecKeys == InitKbd /\ [][NextKeys]_vars

\* ------------------------------------------------ SpecReg: handler registry
\* At most MaxInstalled lines hold a handler at the same time.
MaxInstalled == 1

\* callbacks a caller may pass; interrupt_handler and irq_handler call them like
\* any other handler, and they touch neither the devices nor the PIC
RegHandlers == {"handler_a", "handler_b"}

\* int_no arguments: the sixteen IRQ vectors and one beyond the table
RegVectors == (32..47) \cup {MAX_INTERRUPTS}

\* irq arguments: the sixteen lines and one on either side of the table
RegIrqs == (0..15) \cup {-1, IRQ_COUNT}

RegRoom(t, i) == i \in DOMAIN t \/ Cardinality(DOMAIN t) < MaxInstalled

\* no device has anything to say during a delivery
QuietDevice == [status |-> 1, data |-> 0, scancode |-> 0, rdy |-> <<TRUE, TRUE>>]

\* the devices have nothing to say, or the keyboard sends 'a' and the mouse a
\* start byte
BootDevices ==
    {QuietDevice, [status |-> 33, data |-> 8, scancode |-> 30, rdy |-> <<TRUE, TRUE>>]}

RegInstallSrc ==
    \E v \in RegVectors, h \in RegHandlers :
        RegRoom(interrupt_handlers, v) /\ interrupt_register_handler(v, h)

RegUninstallSrc == \E v \in RegVectors : interrupt_unregister_handler(v)

RegDeliverSrc == \E v \in 32..47 : interrupt_handler(v, QuietDevice)

RegInstallLegacy ==
    \E irq \in RegIrqs, h \in RegHandlers :
        RegRoom(irq_handlers, irq) /\ irq_install_handler(irq, h)

RegUninstallLegacy == \E irq \in RegIrqs : irq_uninstall_handler(irq)

RegDeliverLegacy == \E v \in 32..47 : irq_handler(v, QuietDevice)

NextReg ==
    \/ RegInstallSrc
    \/ RegUninstallSrc
    \/ RegDeliverSrc
    \/ RegInstallLegacy
    \/ RegUninstallLegacy
    \/ RegDeliverLegacy

SpecReg == Init /\ [][NextReg]_vars

\* ------------------------------------------ SpecVec: the range of vectors
\* int_no arguments (int_t is uint8_t): both ends of the table, the first and
\* last IRQ vector, and the largest value of the type
VecNumbers == {0, 1, 32, 47, MAX_INTERRUPTS - 1, MAX_INTERRUPTS}

\* "idtp.limit = (sizeof(struct idt_entry) * MAX_INTERRUPTS) - 1": an IDT entry
\* is eight bytes
IdtLimit == (8 * MAX_INTERRUPTS) - 1

\* the CPU finds a descriptor for vector v inside the limit of the IDT
VectorInIdt(v) == (8 * v) + 7 <= IdtLimit

\* the interrupt number pushed by the stub the gate of vector v points to:
\* "ISR_NOERR n" pushes n, "IRQ k, v" pushes v
StubPush(v) == IF v < 32 THEN v ELSE IrqStubPush[IdtStub(v) + 1]

VecInstall ==
    \E v \in VecNumbers, h \in RegHandlers :
        /\ VectorOutOfRange(v) \/ RegRoom(interrupt_handlers, v)
        /\ interrupt_register_handler(v, h)

VecUninstall == \E v \in VecNumbers : interrupt_unregister_handler(v)

\* an interrupt or exception enters through one of the gates
VecDeliver == \E g \in IdtVectors : interrupt_handler(StubPush(g), QuietDevice)

NextVec ==
    \/ VecInstall
    \/ VecUninstall
    \/ VecDeliver

InitVec == BootState("src", EmptyTable, EmptyTable)

SpecVec == InitVec /\ [][NextVec]_vars

\* --------------------------- SpecStub: one interrupt through its entry stub
\* the vectors that have an entry stub: isr0..isr31 and irq0..irq15
StubVectors == 0..47

\* the exceptions for which the processor pushes an error code (x86
\* architecture: #DF, #TS, #NP, #SS, #GP, #PF, #AC, #CP, #VC, #SX); hardware
\* interrupts push none
CpuErrorCodeVectors == {8, 10, 11, 12, 13, 14, 17, 21, 29, 30}

\* (mutation: every exception stub pushes a dummy error code)
StubErrVectors_none == {}

\* the vectors whose stub is declared with ISR_ERR
StubErrVectors == {8, 10, 11, 12, 13, 14, 17, 21, 30}

\* what the interrupted code has in its registers and on its stack
StubRegFiles ==
    {[r \in RegNames |-> 0],
     [eax |-> 1, ecx |-> 2, edx |-> 3, ebx |-> 4, ebp |-> 5, esi |-> 6, edi |-> 7,
      ds |-> 16, es |-> 16, fs |-> 16, gs |-> 16]}

StubStacks == {<<>>, <<61, 62>>}

\* the return frame of the interrupted code: EFLAGS, CS, EIP (same privilege
\* level: no stack switch)
CpuFrame == <<514, 8, 4096>>

\* error codes the processor may push
ErrorCodes == {0, 8}

\* values a C function may leave in the caller-saved registers
Clobbers == {0, 99}

\* the last n words of a stack, top first
RECURSIVE TopWords(_, _)
TopWords(stack, n) ==
    IF n = 0 THEN <<>> ELSE <<stack[Len(stack)]>> \o TopWords(SubSeq(stack, 1, Len(stack) - 1), n - 1)

Drop(stack, n) == SubSeq(stack, 1, Len(stack) - n)

\* the processor takes exception or interrupt v: it pushes EFLAGS, CS, EIP and,
\* for some exceptions, an error code, and enters the gate's stub
cpu_interrupt(v, e) ==
    /\ cpu.pc = "running"
    /\ cpu' = [cpu EXCEPT !.pc = "stub", !.vec = v,
                          !.err = IF v \in CpuErrorCodeVectors THEN <<e>> ELSE <<>>,
                          !.stack = cpu.stack \o CpuFrame
                                        \o (IF v \in CpuErrorCodeVectors THEN <<e>> ELSE <<>>)]

\* isr<v> / irq<v-32>: "push dword 0" unless declared with ISR_ERR, then
\* "push dword <number>", "jmp isr_common_stub"
entry_stub ==
    /\ cpu.pc = "stub"
    /\ cpu' = [cpu EXCEPT !.pc = "isr_common_stub",
                          !.stack = cpu.stack
                                        \o (IF cpu.vec \in StubErrVectors THEN <<>> ELSE <<0>>)
                                        \o <<StubPush(cpu.vec)>>]

\* the words pusha stores, in order: eax, ecx, edx, ebx, the stack pointer
\* before the instruction, ebp, esi, edi
Pusha(stack, regs) ==
    stack \o <<regs["eax"], regs["ecx"], regs["edx"], regs["ebx"], Len(stack),
               regs["ebp"], regs["esi"], regs["edi"]>>

\* isr_common_stub up to the call: pusha; push ds, es, fs, gs; load the
\* kernel data segment through ax; push esp
isr_common_save ==
    LET saved == Pusha(cpu.stack, cpu.regs)
                     \o <<cpu.regs["ds"], cpu.regs["es"], cpu.regs["fs"], cpu.regs["gs"]>>
    IN /\ cpu.pc = "isr_common_stub"
       /\ cpu' = [cpu EXCEPT !.pc = "interrupt_handler",
                             !.regs = [r \in RegNames |->
                                          IF r \in {"eax", "ds", "es", "fs", "gs"}
                                          THEN KERNEL_DS
                                          ELSE cpu.regs[r]],
                             !.stack = saved \o <<Len(saved)>>]

\* struct interrupt_context as the handler reads it through its argument:
\* field k (0 = gs) is the k-th word below the argument
ContextWord(stack, k) == stack[Len(stack) - 1 - k]

ContextFields ==
    <<"gs", "fs", "es", "ds", "edi", "esi", "ebp", "esp", "ebx", "edx", "ecx", "eax",
      "int_no", "err_code", "eip", "cs", "eflags">>

Context(stack) ==
    [f \in {ContextFields[i] : i \in 1..Len(ContextFields)} |->
        ContextWord(stack, (CHOOSE i \in 1..Len(ContextFields) : ContextFields[i] = f) - 1)]

\* "call interrupt_handler": a C function, free to change eax, ecx and edx; a
\* callback may write to the context it is handed (touch)
call_interrupt_handler(clob, touch) ==
    /\ cpu.pc = "interrupt_handler"
    /\ cpu' = [cpu EXCEPT !.pc = "return",
                          !.touched = touch,
                          !.regs = [r \in RegNames |->
                                       IF r \in {"eax", "ecx", "edx"} THEN clob ELSE cpu.regs[r]],
                          !.stack = IF touch
                                    THEN [cpu.stack EXCEPT ![Len(cpu.stack) - 12] = 77]
                                    ELSE cpu.stack]

\* isr_common_stub after the call: add esp, 4; pop gs, fs, es, ds; popa;
\* add esp, 8
isr_common_restore ==
    LET st == Drop(cpu.stack, 1)
        w == TopWords(st, 12)
    IN /\ cpu.pc = "return"
       /\ cpu' = [cpu EXCEPT !.pc = "iret",
                             !.regs = [gs |-> w[1], fs |-> w[2], es |-> w[3], ds |-> w[4],
                                       edi |-> w[5], esi |-> w[6], ebp |-> w[7],
                                       ebx |-> w[9], edx |-> w[10], ecx |-> w[11],
                                       eax |-> w[12]],
                             !.stack = Drop(st, 12 + 2)]

\* iret pops EIP, CS and EFLAGS
iret ==
    /\ cpu.pc = "iret"
    /\ cpu' = [cpu EXCEPT !.pc = "resumed",
                          !.ret = TopWords(cpu.stack, 3),
                          !.stack = Drop(cpu.stack, 3)]

StubFrame ==
    /\ last' = NoLast
    /\ ClearObs
    /\ UNCHANGED <<build, keys_held, in_service, setup_vars, iflag, thread, pic_mask, drivers,
                   interrupt_handlers, irq_handlers, device_vars>>

StubInterrupt == \E v \in StubVectors, e \in ErrorCodes : cpu_interrupt(v, e) /\ StubFrame

StubEntry == entry_stub /\ StubFrame

StubSave == isr_common_save /\ StubFrame

StubCall ==
    \E clob \in Clobbers, touch \in BOOLEAN : call_interrupt_handler(clob, touch) /\ StubFrame

StubRestore == isr_common_restore /\ StubFrame

StubIret == iret /\ StubFrame

NextStub ==
    \/ StubInterrupt
    \/ StubEntry
    \/ StubSave
    \/ StubCall
    \/ StubRestore
    \/ StubIret

InitStub ==
    /\ build = "src"
    /\ interrupt_handlers = EmptyTable
    /\ irq_handlers = EmptyTable
    /\ timer_ticks = 0
    /\ mouse_x = 0
    /\ mouse_y = 0
    /\ mouse_cycle = 0
    /\ mouse_packet = [i \in 0..2 |-> 0]
    /\ handler = NULL
    /\ keyboard_state = KeyboardState0
    /\ drivers = <<>>
    /\ in_service = {}
    /\ last = NoLast
    /\ port_writes = <<>>
    /\ mouse_decoded = 0
    /\ mouse_delivered = <<>>
    /\ kbd_event = NoEvent
    /\ kbd_delivered = <<>>
    /\ keys_held = {}
    /\ pic_mask = PicInitMask("src")
    /\ pic_base = PicInitBase("src")
    /\ idt_loaded = TRUE
    /\ iflag = TRUE
    /\ thread = MainLoop
    /\ \E stack \in StubStacks, regs \in StubRegFiles : cpu = CpuRunning(stack, regs)

SpecStub == InitStub /\ [][NextStub]_vars

\* ------------------------------------- SpecEoi: deliveries through the PICs
\* the handlers a completed boot has installed
BootedSrc ==
    [v \in {32, IRQ_BASE + 1, IRQ_BASE + MOUSE_IRQ} |->
        CASE v = 32 -> "timer_callback"
          [] v = IRQ_BASE + 1 -> "keyboard_interrupt"
          [] OTHER -> "mouse_handler"]

BootedLegacy ==
    [irq \in {1, MOUSE_IRQ} |-> IF irq = 1 THEN "keyboard_irq_handler" ELSE "mouse_handler"]

\* the kernel in its main loop after a boot in which both devices came up
InitEoi ==
    \/ BootState("src", BootedSrc, EmptyTable)
    \/ BootState("legacy", EmptyTable, BootedLegacy)

\* the lines the model raises: timer, keyboard, mouse, and one line that has no
\* handler in either build
EoiLines == {TIMER_IRQ, KEYBOARD_IRQ, MOUSE_IRQ, 14}

\* src: a line raises its interrupt while kernel_main idles with interrupts on
EoiDeliverSrc ==
    \E n \in EoiLines, dev \in BootDevices :
        /\ iflag
        /\ PicCanRaise(pic_mask, in_service, n)
        /\ interrupt_handler_from(PicVector("src", n), dev, in_service \cup PicRaised(n))
        /\ UNCHANGED keys_held

\* legacy: the same through irq_handler
EoiDeliverLegacy ==
    \E n \in EoiLines, dev \in BootDevices :
        /\ iflag
        /\ PicCanRaise(pic_mask, in_service, n)
        /\ irq_handler_from(PicVector("legacy", n), dev, in_service \cup PicRaised(n))
        /\ UNCHANGED keys_held

NextEoi ==
    \/ EoiDeliverSrc
    \/ EoiDeliverLegacy

SpecEoi == InitEoi /\ [][NextEoi]_vars

\* the devices keep raising interrupts and the CPU keeps taking them
SpecEoiLive == SpecEoi /\ WF_vars(NextEoi)

\* ------------------------------------------------- SpecPic: the PIC driver
\* At most MaxToggled lines differ from the masks of the last reset or pic_init.
MaxToggled == 1

\* the mask registers at power-on (all lines masked, or all open) and after
\* pic_init
PicAnchors(b) == {<<255, 255>>, <<0, 0>>, PicInitMask(b)}

\* the lines whose mask bit differs between two register pairs
PicDiffer(m, n) == {i \in 0..(IRQ_COUNT - 1) : PicLineOpen(m, i) # PicLineOpen(n, i)}

PicNear(m, b) == \E a \in PicAnchors(b) : Cardinality(PicDiffer(m, a)) <= MaxToggled

InitPic ==
    \E b \in {"src", "legacy"} :
        /\ Statics(b, EmptyTable, EmptyTable)
        /\ pic_mask \in {<<255, 255>>, <<0, 0>>}
        /\ pic_base = <<8, 112>>
        /\ idt_loaded = FALSE
        /\ iflag = FALSE
        /\ thread = MainLoop

PicInitSrc == pic_init_src(thread)

PicMaskCall ==
    \E irq \in 0..(IRQ_COUNT - 1) :
        PicNear(PicMask(pic_mask, irq), build) /\ pic_mask_irq_call(irq)

PicUnmaskCall ==
    \E irq \in 0..(IRQ_COUNT - 1) :
        PicNear(PicUnmask(pic_mask, irq), build) /\ pic_unmask_irq_call(irq)

PicEoiCall == \E irq \in 0..(IRQ_COUNT - 1) : pic_send_eoi_call(irq)

NextPic ==
    \/ PicInitSrc
    \/ pic_init_legacy
    \/ PicMaskCall
    \/ PicUnmaskCall
    \/ PicEoiCall

SpecPic == InitPic /\ [][NextPic]_vars

\* ------------------------------------------------ SpecDrv: driver registry
\* Unnamed descriptors are offered only while fewer than MaxUnnamedAt
\* descriptors are registered.
MaxUnnamedAt == 2

\* thirty-three distinct driver names, registered in this order
DriverNames ==
    <<"drv01", "drv02", "drv03", "drv04", "drv05", "drv06", "drv07",
      "drv08", "drv09", "drv10", "drv11", "drv12", "drv13", "drv14",
      "drv15", "drv16", "drv17", "drv18", "drv19", "drv20", "drv21",
      "drv22", "drv23", "drv24", "drv25", "drv26", "drv27", "drv28",
      "drv29", "drv30", "drv31", "drv32", "drv33">>

NamedDrivers == SelectSeq(drivers, LAMBDA d : DrvName(d) # NULL)

\* a descriptor with a name not seen before
DrvRegisterFresh ==
    /\ Len(NamedDrivers) < Len(DriverNames)
    /\ register_driver(DriverNames[Len(NamedDrivers) + 1])

\* a descriptor with the name of a registered one
DrvRegisterKnown == \E i \in 1..Len(NamedDrivers) : register_driver(NamedDrivers[i])

DrvRegisterUnnamed ==
    /\ build = "src"
    /\ num_drivers < MaxUnnamedAt
    /\ register_driver("unnamed")

DrvRegisterNull == build = "src" /\ register_driver(NULL)

NextDrv ==
    \/ DrvRegisterFresh
    \/ DrvRegisterKnown
    \/ DrvRegisterUnnamed
    \/ DrvRegisterNull

SpecDrv == Init /\ [][NextDrv]_vars

\* ------------------------------------------------ SpecSub: keyboard subscribers
\* callbacks a consumer may subscribe, and the null pointer
SubHandlers == {"sub_a", "sub_b"}

\* one make code and one break code
SubDevices ==
    [status : {1}, data : {0}, scancode : {30, 158}, rdy : {<<TRUE, TRUE>>}]

SubRegister == \E h \in SubHandlers \cup {NULL} : keyboard_register_handler(h)

SubUnregister == \E h \in SubHandlers \cup {NULL} : keyboard_unregister_handler(h)

SubIrq == \E dev \in SubDevices : interrupt_handler(IRQ_BASE + KEYBOARD_IRQ, dev)

NextSub ==
    \/ SubRegister
    \/ SubUnregister
    \/ SubIrq

SpecSub == InitKbd /\ [][NextSub]_vars

\* ----------- SpecRace: the subscriber list updated with interrupts enabled
\* keyboard_register_handler and keyboard_unregister_handler run in
\* non-interrupt code without disabling interrupts; they are taken one memory
\* write at a time, and a keyboard interrupt may come between two writes.
RaceHandlers == {"sub_a", "sub_b", "sub_c"}

\* non-interrupt code inside keyboard_unregister_handler(h): i is the index
\* where h was found, j the index the copy loop is at
InUnregister(h, i, j) ==
    [MainLoop EXCEPT !.pc = "keyboard_unregister_handler", !.who = h, !.timeout = i, !.vec = j]

\* non-interrupt code inside "handlers[num_handlers++] = handler": slot is the
\* index read from num_handlers, step the write already done (1: the array
\* element, 2: the counter)
InRegister(h, slot, step) ==
    [MainLoop EXCEPT !.pc = "keyboard_register_handler", !.who = h, !.vec = slot, !.step = step]

RaceFrame ==
    /\ ClearObs
    /\ UNCHANGED <<build, cpu, keys_held, in_service, setup_vars, iflag, pic_mask, drivers, interrupt_handlers,
                   irq_handlers, timer_ticks, mouse_vars, handler>>

\* the search loop of keyboard_unregister_handler: it only reads; when h is
\* not found the routine returns
race_unregister_find(h) ==
    LET i == KeyboardFind(keyboard_state, h)
    IN /\ build = "src"
       /\ thread = MainLoop
       /\ thread' = IF i >= 0 THEN InUnregister(h, i, i) ELSE MainLoop
       /\ last' = [NoLast EXCEPT !.op = "race_unregister_find", !.who = h, !.vec = i + 1]
       /\ UNCHANGED keyboard_state
       /\ RaceFrame

\* one pass of "for (j = i; j < num_handlers - 1; j++) handlers[j] = handlers[j + 1];"
race_unregister_shift ==
    /\ thread.pc = "keyboard_unregister_handler"
    /\ thread.vec < keyboard_state.num_handlers - 1
    /\ keyboard_state' =
           [keyboard_state EXCEPT !.handlers[thread.vec] = keyboard_state.handlers[thread.vec + 1]]
    /\ thread' = [thread EXCEPT !.vec = thread.vec + 1]
    /\ last' = [NoLast EXCEPT !.op = "race_unregister_shift", !.who = thread.who]
    /\ RaceFrame

\* "keyboard_state.num_handlers--; break;"
race_unregister_count ==
    /\ thread.pc = "keyboard_unregister_handler"
    /\ thread.vec >= keyboard_state.num_handlers - 1
    /\ keyboard_state' =
           [keyboard_state EXCEPT !.num_handlers = keyboard_state.num_handlers - 1]
    /\ thread' = MainLoop
    /\ last' = [NoLast EXCEPT !.op = "race_unregister_count", !.who = thread.who]
    /\ RaceFrame

\* keyboard_register_handler up to the first write of
\* "handlers[num_handlers++] = handler": the two writes are unsequenced and
\* not volatile, the compiler emits them in either order
race_register_first(h, count_first) ==
    /\ build = "src"
    /\ thread = MainLoop
    /\ KeyboardRegisterResult(keyboard_state, h) = "STATUS_SUCCESS"
    /\ keyboard_state' =
           IF count_first
           THEN [keyboard_state EXCEPT !.num_handlers = keyboard_state.num_handlers + 1]
           ELSE [keyboard_state EXCEPT !.handlers[keyboard_state.num_handlers] = h]
    /\ thread' = InRegister(h, keyboard_state.num_handlers, IF count_first THEN 2 ELSE 1)
    /\ last' = [NoLast EXCEPT !.op = "race_register_first", !.who = h]
    /\ RaceFrame

\* the second write, and "return STATUS_SUCCESS"
race_register_second ==
    /\ thread.pc = "keyboard_register_handler"
    /\ keyboard_state' =
           IF thread.step = 2
           THEN [keyboard_state EXCEPT !.handlers[thread.vec] = thread.who]
           ELSE [keyboard_state EXCEPT !.num_handlers = thread.vec + 1]
    /\ thread' = MainLoop
    /\ last' = [NoLast EXCEPT !.op = "race_register_second", !.who = thread.who,
                              !.ret = "STATUS_SUCCESS"]
    /\ RaceFrame

\* a consumer subscribes once: callers register handlers that are not in the list
RaceRegister ==
    \E h \in RaceHandlers, count_first \in BOOLEAN :
        /\ KeyboardFind(keyboard_state, h) < 0
        /\ race_register_first(h, count_first)

RaceUnregister == \E h \in RaceHandlers : race_unregister_find(h)

RaceIrq == \E dev \in SubDevices : hardware_interrupt(KEYBOARD_IRQ, dev)

NextRace ==
    \/ RaceRegister
    \/ race_register_second
    \/ RaceUnregister
    \/ race_unregister_shift
    \/ race_unregister_count
    \/ RaceIrq

SpecRace == InitKbd /\ [][NextRace]_vars

\* ------------------------------------------- SpecKbdInit: keyboard bring-up
\* kernel_main runs keyboard_init after interrupt_init and pic_init
InitKbdInit == BootState("src", EmptyTable, EmptyTable)

\* what keyboard_read_data can return: the two expected bytes, or -1 on timeout
KbdInitResponses == {KEYBOARD_RES_ACK, KEYBOARD_RES_SELF_TEST_OK, -1}

\* inputs of one keyboard_init call; sends and reads that the call never gets
\* to are fixed (ready, -1) since they are not consumed
KbdInitInputs ==
    {in \in [rdy : [1..3 -> BOOLEAN], resp : [1..4 -> KbdInitResponses]] :
        LET fail == KeyboardInitFail(in.resp)
        IN /\ \A i \in 1..4 : (fail # 0 /\ i > fail) => in.resp[i] = -1
           /\ fail \in {1, 2} => in.rdy[2]
           /\ fail \in {1, 2, 3} => in.rdy[3]}

KbdInitCall == \E in \in KbdInitInputs : keyboard_init(in.rdy, in.resp)

\* kernel_main subscribes its keyboard_handler after keyboard_init
KbdInitSubscribe ==
    /\ keyboard_state.num_handlers = 0
    /\ keyboard_register_handler("keyboard_handler")

\* caps lock and left shift presses
KbdInitDevices ==
    [status : {1}, data : {0}, scancode : {58, 42}, rdy : {<<TRUE, TRUE>>}]

KbdInitIrq == \E dev \in KbdInitDevices : interrupt_handler(IRQ_BASE + KEYBOARD_IRQ, dev)

NextKbdInit ==
    \/ KbdInitCall
    \/ KbdInitSubscribe
    \/ KbdInitIrq

SpecKbdInit == InitKbdInit /\ [][NextKbdInit]_vars

\* -------------- SpecResub: subscribers across calls of keyboard_init
\* consumers subscribe (each at most once at a time) and unsubscribe, the
\* keyboard is initialized again, keys are pressed and released
ResubRegister ==
    \E h \in SubHandlers :
        /\ KeyboardFind(keyboard_state, h) < 0
        /\ keyboard_register_handler(h)

ResubUnregister == \E h \in SubHandlers : keyboard_unregister_handler(h)

ResubInit == \E in \in KbdInitInputs : keyboard_init(in.rdy, in.resp)

ResubIrq == \E dev \in SubDevices : interrupt_handler(IRQ_BASE + KEYBOARD_IRQ, dev)

NextResub ==
    \/ ResubRegister
    \/ ResubUnregister
    \/ ResubInit
    \/ ResubIrq

SpecResub == InitKbd /\ [][NextResub]_vars

\* ------------------------------- SpecKbdSteps: keyboard_init step by step
\* (mutation: the line is unmasked before the callback is registered)
KeyboardInitProgram_unmask_first ==
    <<"handshake", "pic_unmask_irq", "interrupt_register_handler">>

\* keyboard_init in program order: the state reset and the four checked
\* exchanges with the device, then the two calls that follow them
KeyboardInitProgram == <<"handshake", "interrupt_register_handler", "pic_unmask_irq">>

KeyboardInitAt(i) == [MainLoop EXCEPT !.pc = "keyboard_init", !.step = i]

KeyboardInitNow ==
    IF thread.pc = "keyboard_init" THEN KeyboardInitProgram[thread.step] ELSE "none"

\* "return STATUS_SUCCESS;" follows the last statement
KeyboardInitNext ==
    IF thread.step = Len(KeyboardInitProgram) THEN MainLoop ELSE KeyboardInitAt(thread.step + 1)

\* the state reset and the exchanges; a wrong or missing byte returns
\* STATUS_DEVICE_ERROR at once
kbd_init_handshake(rdy, resp) ==
    LET fail == KeyboardInitFail(resp)
    IN /\ build = "src"
       /\ KeyboardInitNow = "handshake"
       /\ keyboard_state' = [keyboard_state EXCEPT !.num_handlers = 0,
                                                   !.num_lock = FALSE,
                                                   !.caps_lock = FALSE,
                                                   !.scroll_lock = FALSE,
                                                   !.shift = FALSE,
                                                   !.ctrl = FALSE,
                                                   !.alt = FALSE]
       /\ port_writes' =
              keyboard_send_data(KEYBOARD_CMD_RESET, rdy[1])
                  \o (IF fail \in {0, 3, 4}
                      THEN keyboard_send_data(KEYBOARD_CMD_SET_DEFAULTS, rdy[2])
                      ELSE <<>>)
                  \o (IF fail \in {0, 4}
                      THEN keyboard_send_data(KEYBOARD_CMD_ENABLE, rdy[3])
                      ELSE <<>>)
       /\ last' = [NoLast EXCEPT !.op = "kbd_init_handshake", !.rdy = rdy, !.resp = resp,
                                 !.ret = IF fail = 0 THEN "none" ELSE "STATUS_DEVICE_ERROR"]
       /\ thread' = IF fail = 0 THEN KeyboardInitNext ELSE MainLoop
       /\ mouse_decoded' = 0
       /\ mouse_delivered' = <<>>
       /\ kbd_event' = NoEvent
       /\ kbd_delivered' = <<>>
       /\ UNCHANGED <<build, cpu, keys_held, in_service, setup_vars, iflag, pic_mask, drivers, interrupt_handlers,
                      irq_handlers, timer_ticks, mouse_vars, handler>>

\* "status = interrupt_register_handler(IRQ_BASE + 1, keyboard_interrupt);"
kbd_init_register ==
    /\ build = "src"
    /\ KeyboardInitNow = "interrupt_register_handler"
    /\ interrupt_handlers' = TableSet(interrupt_handlers, IRQ_BASE + 1, "keyboard_interrupt")
    /\ last' = [NoLast EXCEPT !.op = "kbd_init_register", !.vec = IRQ_BASE + 1,
                              !.who = "keyboard_interrupt",
                              !.ret = IF thread.step = Len(KeyboardInitProgram)
                                      THEN "STATUS_SUCCESS"
                                      ELSE "none"]
    /\ thread' = KeyboardInitNext
    /\ ClearObs
    /\ UNCHANGED <<build, cpu, keys_held, in_service, setup_vars, iflag, pic_mask, drivers, irq_handlers,
                   device_vars>>

\* "pic_unmask_irq(1);"
kbd_init_unmask ==
    /\ build = "src"
    /\ KeyboardInitNow = "pic_unmask_irq"
    /\ pic_mask' = PicUnmask(pic_mask, 1)
    /\ port_writes' = pic_unmask_irq(pic_mask, 1)
    /\ last' = [NoLast EXCEPT !.op = "kbd_init_unmask", !.vec = 1,
                              !.ret = IF thread.step = Len(KeyboardInitProgram)
                                      THEN "STATUS_SUCCESS"
                                      ELSE "none"]
    /\ thread' = KeyboardInitNext
    /\ mouse_decoded' = 0
    /\ mouse_delivered' = <<>>
    /\ kbd_event' = NoEvent
    /\ kbd_delivered' = <<>>
    /\ UNCHANGED <<build, cpu, keys_held, in_service, setup_vars, iflag, drivers, interrupt_handlers,
                   irq_handlers, device_vars>>

\* keyboard_init is entered with line 1 masked (all lines, or the one line
\* after pic_init), interrupts on or off
InitKbdSteps ==
    \E f \in BOOLEAN :
        /\ Statics("src", EmptyTable, EmptyTable)
        /\ pic_mask \in {PicMask(PicInitMask("src"), KEYBOARD_IRQ), <<255, 255>>}
        /\ pic_base = PicInitBase("src")
        /\ idt_loaded = TRUE
        /\ iflag = f
        /\ thread = KeyboardInitAt(1)

KbdStepsHandshake == \E in \in KbdInitInputs : kbd_init_handshake(in.rdy, in.resp)

\* the keyboard raises its interrupt, between two statements or afterwards
KbdStepsIrq ==
    \E dev \in BootDevices \cup KbdInitDevices : hardware_interrupt(KEYBOARD_IRQ, dev)

NextKbdSteps ==
    \/ KbdStepsHandshake
    \/ kbd_init_register
    \/ kbd_init_unmask
    \/ KbdStepsIrq

SpecKbdSteps == InitKbdSteps /\ [][NextKbdSteps]_vars

\* --------------------------------------------- SpecMouseInit: mouse bring-up
\* kernel_main runs init_mouse after interrupt_init and pic_init
InitMouseInit == BootState("src", EmptyTable, EmptyTable)

\* what mouse_read_timeout can return: the two expected bytes, or -1 on timeout
MouseInitResponses == {MOUSE_ACK, MOUSE_SELF_TEST, -1}

\* controller command bytes: all clear, mouse clock disabled, all set
MouseInitStatus == {0, 16, 255}

\* reads that the call never gets to are fixed (-1) since they are not consumed
MouseInitInputs ==
    {resp \in [1..5 -> MouseInitResponses] :
        \A i \in 1..5 : (MouseInitFail(resp) # 0 /\ i > MouseInitFail(resp)) => resp[i] = -1}

MouseInitCall ==
    \E status \in MouseInitStatus, resp \in MouseInitInputs : init_mouse(status, resp)

\* the controller delivers line 12 only while its mask bit is clear
MouseInitIrq ==
    /\ PicLineOpen(pic_mask, MOUSE_IRQ)
    /\ \E dev \in [status : {32}, data : {8, 5}, scancode : {0}, rdy : {<<TRUE, TRUE>>}] :
           interrupt_handler(IRQ_BASE + MOUSE_IRQ, dev)

NextMouseInit ==
    \/ MouseInitCall
    \/ MouseInitIrq

SpecMouseInit == InitMouseInit /\ [][NextMouseInit]_vars

\* ---------------------------------- SpecMouseSteps: init_mouse step by step
\* (mutation: the line is unmasked before the callback is registered)
MouseInitProgram_unmask_first ==
    <<"pic_mask_irq", "handshake", "pic_unmask_irq", "interrupt_register_handler",
      "register_driver">>

\* init_mouse in program order: the masking, the controller set-up and the
\* five checked reads, then the three calls that follow them
MouseInitProgram ==
    <<"pic_mask_irq", "handshake", "interrupt_register_handler", "pic_unmask_irq",
      "register_driver">>

MouseInitAt(i) == [MainLoop EXCEPT !.pc = "init_mouse", !.step = i]

MouseInitNow == IF thread.pc = "init_mouse" THEN MouseInitProgram[thread.step] ELSE "none"

\* init_mouse returns after its last statement
MouseInitNext ==
    IF thread.step = Len(MouseInitProgram) THEN MainLoop ELSE MouseInitAt(thread.step + 1)

\* "pic_mask_irq(MOUSE_IRQ);"
mouse_init_mask ==
    /\ build = "src"
    /\ MouseInitNow = "pic_mask_irq"
    /\ pic_mask' = PicMask(pic_mask, MOUSE_IRQ)
    /\ port_writes' = pic_mask_irq(pic_mask, MOUSE_IRQ)
    /\ last' = [NoLast EXCEPT !.op = "mouse_init_mask", !.vec = MOUSE_IRQ]
    /\ thread' = MouseInitNext
    /\ mouse_decoded' = 0
    /\ mouse_delivered' = <<>>
    /\ kbd_event' = NoEvent
    /\ kbd_delivered' = <<>>
    /\ UNCHANGED <<build, cpu, keys_held, in_service, setup_vars, iflag, drivers, interrupt_handlers,
                   irq_handlers, device_vars>>

\* the controller set-up and the exchanges with the device; a wrong or missing
\* byte makes init_mouse return at once
mouse_init_handshake(status, resp) ==
    LET fail == MouseInitFail(resp)
    IN /\ build = "src"
       /\ MouseInitNow = "handshake"
       /\ port_writes' =
              mouse_write_cmd(MOUSE_ENABLE)
                  \o mouse_write_cmd(MOUSE_GET_STATUS)
                  \o mouse_write_cmd(MOUSE_SET_STATUS)
                  \o <<Out(MOUSE_PORT, MouseConfigByte(status))>>
                  \o mouse_write(MOUSE_DISABLE)
                  \o (IF fail # 1 THEN mouse_write(MOUSE_RESET) ELSE <<>>)
                  \o (IF fail \in {0, 4, 5} THEN mouse_write(MOUSE_DEFAULT) ELSE <<>>)
                  \o (IF fail \in {0, 5} THEN mouse_write(MOUSE_ENABLE_PACKET) ELSE <<>>)
       /\ last' = [NoLast EXCEPT !.op = "mouse_init_handshake", !.data = status,
                                 !.resp = resp, !.ret = "void"]
       /\ thread' = IF fail = 0 THEN MouseInitNext ELSE MainLoop
       /\ mouse_decoded' = 0
       /\ mouse_delivered' = <<>>
       /\ kbd_event' = NoEvent
       /\ kbd_delivered' = <<>>
       /\ UNCHANGED <<build, cpu, keys_held, in_service, setup_vars, iflag, pic_mask, drivers, interrupt_handlers,
                      irq_handlers, device_vars>>

\* "interrupt_register_handler(IRQ_BASE + MOUSE_IRQ, mouse_handler);"
mouse_init_register ==
    /\ build = "src"
    /\ MouseInitNow = "interrupt_register_handler"
    /\ interrupt_handlers' =
           TableSet(interrupt_handlers, IRQ_BASE + MOUSE_IRQ, "mouse_handler")
    /\ last' = [NoLast EXCEPT !.op = "mouse_init_register", !.vec = IRQ_BASE + MOUSE_IRQ,
                              !.who = "mouse_handler"]
    /\ thread' = MouseInitNext
    /\ ClearObs
    /\ UNCHANGED <<build, cpu, keys_held, in_service, setup_vars, iflag, pic_mask, drivers, irq_handlers,
                   device_vars>>

\* "pic_unmask_irq(MOUSE_IRQ);"
mouse_init_unmask ==
    /\ build = "src"
    /\ MouseInitNow = "pic_unmask_irq"
    /\ pic_mask' = PicUnmask(pic_mask, MOUSE_IRQ)
    /\ port_writes' = pic_unmask_irq(pic_mask, MOUSE_IRQ)
    /\ last' = [NoLast EXCEPT !.op = "mouse_init_unmask", !.vec = MOUSE_IRQ]
    /\ thread' = MouseInitNext
    /\ mouse_decoded' = 0
    /\ mouse_delivered' = <<>>
    /\ kbd_event' = NoEvent
    /\ kbd_delivered' = <<>>
    /\ UNCHANGED <<build, cpu, keys_held, in_service, setup_vars, iflag, drivers, interrupt_handlers,
                   irq_handlers, device_vars>>

\* "register_driver(&mouse_driver);"
mouse_init_register_driver ==
    /\ build = "src"
    /\ MouseInitNow = "register_driver"
    /\ drivers' = IF RegisterDriverResult(drivers, "ps2_mouse") = "DRIVER_OK"
                  THEN Append(drivers, "ps2_mouse")
                  ELSE drivers
    /\ last' = [NoLast EXCEPT !.op = "mouse_init_register_driver", !.who = "ps2_mouse",
                              !.ret = RegisterDriverResult(drivers, "ps2_mouse")]
    /\ thread' = MouseInitNext
    /\ ClearObs
    /\ UNCHANGED <<build, cpu, keys_held, in_service, setup_vars, iflag, pic_mask, interrupt_handlers,
                   irq_handlers, device_vars>>

\* init_mouse is entered after pic_init, with line 12 open or masked,
\* interrupts on or off
InitMouseSteps ==
    \E f \in BOOLEAN :
        /\ Statics("src", EmptyTable, EmptyTable)
        /\ pic_mask \in {PicInitMask("src"), PicMask(PicInitMask("src"), MOUSE_IRQ)}
        /\ pic_base = PicInitBase("src")
        /\ idt_loaded = TRUE
        /\ iflag = f
        /\ thread = MouseInitAt(1)

MouseStepsHandshake ==
    \E status \in MouseInitStatus, resp \in MouseInitInputs :
        mouse_init_handshake(status, resp)

\* the mouse raises its interrupt, between two statements or afterwards
MouseStepsIrq == \E dev \in BootDevices : hardware_interrupt(MOUSE_IRQ, dev)

NextMouseSteps ==
    \/ mouse_init_mask
    \/ MouseStepsHandshake
    \/ mouse_init_register
    \/ mouse_init_unmask
    \/ mouse_init_register_driver
    \/ MouseStepsIrq

SpecMouseSteps == InitMouseSteps /\ [][NextMouseSteps]_vars

\* ------------------------------------------- SpecPoll: the handshake waits
\* a bring-up routine has just been entered from kernel_main, interrupts off
InitPoll ==
    \E b \in {"src", "legacy"} :
        \E routine \in HandshakeRoutines(b) :
            BootStateAt(b, EmptyTable, EmptyTable, FALSE, PollStart(routine))

\* bits 0 (output buffer full) and 1 (input buffer full) of the status port
PollStatus == 0..3

PollWait == \E status \in PollStatus, match \in BOOLEAN : poll_wait(status, match)

PollExpire == \E match \in BOOLEAN : poll_expire(match)

PollFlush == \E status \in PollStatus : poll_flush(status)

NextPoll ==
    \/ PollWait
    \/ PollExpire
    \/ PollFlush

SpecPoll == InitPoll /\ [][NextPoll]_vars

\* the CPU keeps executing the routine it is in
SpecPollLive == SpecPoll /\ WF_vars(NextPoll)

\* ------------------------------------- SpecCrit: install / remove, stepwise
\* the registry functions are called with interrupts off (timer_init,
\* keyboard_init, init_mouse during boot) or on (from the main loop)
InitCrit ==
    \E b \in {"src", "legacy"}, f \in BOOLEAN :
        BootStateAt(b, EmptyTable, EmptyTable, f, MainLoop)

\* int_no arguments: timer, mouse, and one beyond the table
CritVectors == {IRQ_BASE + TIMER_IRQ, IRQ_BASE + MOUSE_IRQ, MAX_INTERRUPTS}

CritCall == \E v \in CritVectors, h \in RegHandlers \cup {NULL} : reg_call(v, h)

CritInstallLegacy ==
    \E irq \in {TIMER_IRQ, MOUSE_IRQ, IRQ_COUNT}, h \in RegHandlers :
        irq_install_handler(irq, h)

CritUninstallLegacy ==
    \E irq \in {TIMER_IRQ, MOUSE_IRQ, IRQ_COUNT} : irq_uninstall_handler(irq)

\* the CPU takes an interrupt only while its interrupt flag is set
CritIrqSrc ==
    /\ iflag
    /\ \E v \in {IRQ_BASE + TIMER_IRQ, IRQ_BASE + MOUSE_IRQ} : interrupt_handler(v, QuietDevice)

CritIrqLegacy ==
    /\ iflag
    /\ \E v \in {IRQ_BASE + TIMER_IRQ, IRQ_BASE + MOUSE_IRQ} : irq_handler(v, QuietDevice)

NextCrit ==
    \/ CritCall
    \/ reg_save
    \/ reg_cli
    \/ reg_write
    \/ reg_restore
    \/ CritInstallLegacy
    \/ CritUninstallLegacy
    \/ CritIrqSrc
    \/ CritIrqLegacy

SpecCrit == InitCrit /\ [][NextCrit]_vars

\* ---------------------------------------------------- SpecBoot: kernel_main
\* _start has executed cli and called kernel_main; the PICs are as the firmware
\* left them (vector bases 0x08 / 0x70, every line masked or every line open)
InitBoot ==
    /\ Statics("src", EmptyTable, EmptyTable)
    /\ pic_mask \in {<<255, 255>>, <<0, 0>>}
    /\ pic_base = <<8, 112>>
    /\ idt_loaded = FALSE
    /\ iflag = FALSE
    /\ thread = KernelMainAt(1)

BootKeyboardInit == \E in \in KbdInitInputs : kernel_keyboard_init(in.rdy, in.resp)

BootInitMouse ==
    \E status \in MouseInitStatus, resp \in MouseInitInputs : kernel_init_mouse(status, resp)

\* timer, keyboard and mouse lines
BootIrq ==
    \E n \in {TIMER_IRQ, KEYBOARD_IRQ, MOUSE_IRQ}, dev \in BootDevices :
        hardware_interrupt(n, dev)

NextBoot ==
    \/ idt_install
    \/ irq_init
    \/ pic_init
    \/ timer_init
    \/ BootKeyboardInit
    \/ kernel_keyboard_register
    \/ BootInitMouse
    \/ window_setup
    \/ sti
    \/ BootIrq

SpecBoot == InitBoot /\ [][NextBoot]_vars

\* the CPU keeps executing kernel_main
SpecBootLive == SpecBoot /\ WF_vars(NextBoot)

\* ===================================================================== claims
MasterEoi == Out(PIC1_COMMAND, PIC_EOI)
SlaveEoi == Out(PIC2_COMMAND, PIC_EOI)

IsEoiWrite(w) == w \in {MasterEoi, SlaveEoi}

\* the EOI commands written during the most recent step, in order
EoiWrites == SelectSeq(port_writes, IsEoiWrite)

\* the most recent step was the delivery of an interrupt to the dispatch routine
IsDelivery == last.op = "interrupt"

\* ... and it called the mouse handler, which found mouse data in the controller
IsMouseByte == IsDelivery /\ last.who = "mouse_handler" /\ ~last.spurious

\* C1: every interrupt on an IRQ-sourced vector (32..47) delivered to the dispatch
\* routine emits exactly one EOI sequence before it returns (one master EOI,
\* preceded by one slave EOI for lines 8..15): never zero, never two.
C1_ExactlyOneEoi ==
    (IsDelivery /\ last.vec \in 32..47) =>
        EoiWrites = (IF last.vec - 32 >= 8 THEN <<SlaveEoi>> ELSE <<>>) \o <<MasterEoi>>

\* C2: pic_send_eoi(irq) writes the EOI command to the slave strictly before the
\* master, each exactly once, for irq in 8..15, and to the master only, exactly
\* once, for irq in 0..7; the legacy irq_handler does the same with irq = vector - 32.
C2_EoiOrder ==
    /\ \A irq \in 0..15 :
           pic_send_eoi(irq) = IF irq >= 8 THEN <<SlaveEoi, MasterEoi>> ELSE <<MasterEoi>>
    /\ (IsDelivery /\ build = "src") =>
           /\ last.who \in {"timer_callback", "keyboard_interrupt"} =>
                  EoiWrites = <<MasterEoi>>
           /\ (last.who = "mouse_handler" /\ ~last.spurious) =>
                  EoiWrites = <<SlaveEoi, MasterEoi>>
    /\ (IsDelivery /\ build = "legacy") =>
           EoiWrites = IF last.vec - 32 >= 8 THEN <<SlaveEoi, MasterEoi>> ELSE <<MasterEoi>>

\* a mouse interrupt in the src build was acknowledged on both controllers
C2_Witness ==
    /\ IsMouseByte
    /\ build = "src"
    /\ port_writes = <<SlaveEoi, MasterEoi>>

\* clamp of v into [lo, hi], as the claims state it
ClampRef(v, lo, hi) == IF v < lo THEN lo ELSE IF v > hi THEN hi ELSE v

\* C3: starting from cycle 0, three consecutive mouse-sourced bytes whose first
\* has bit 3 set complete exactly one packet: the first byte moves the decoder to
\* cycle 1 and the second to cycle 2 without decoding an event, the third decodes
\* exactly one event (handed once to the consumer when one is registered) and
\* returns cycle to 0.  Cycles 1 and 2 are entered only behind a start byte.
C3_OneEventPerPacket ==
    /\ mouse_cycle \in {1, 2} => TestBit(mouse_packet[0], 8)
    /\ IsMouseByte =>
           /\ (last.cycle = 0 /\ TestBit(last.data, 8)) =>
                  mouse_cycle = 1 /\ mouse_decoded = 0 /\ mouse_delivered = <<>>
           /\ last.cycle = 1 =>
                  mouse_cycle = 2 /\ mouse_decoded = 0 /\ mouse_delivered = <<>>
           /\ last.cycle = 2 =>
                  /\ mouse_cycle = 0
                  /\ mouse_decoded = 1
                  /\ Len(mouse_delivered) = (IF handler # NULL THEN 1 ELSE 0)

\* the third byte of a packet was just decoded and handed to the consumer
C3_Witness ==
    /\ IsMouseByte
    /\ last.cycle = 2
    /\ TestBit(mouse_packet[0], 8)
    /\ mouse_cycle = 0
    /\ mouse_decoded = 1
    /\ Len(mouse_delivered) = 1

\* C4: a byte with bit 3 clear received at cycle 0 leaves cycle at 0, emits no
\* event and leaves the accumulated position unchanged (so any number of
\* consecutive invalid start bytes does).
C4_InvalidStartIgnored ==
    [][(IsMouseByte' /\ mouse_cycle = 0 /\ ~TestBit(last'.data, 8)) =>
           /\ mouse_cycle' = 0
           /\ mouse_decoded' = 0
           /\ mouse_delivered' = <<>>
           /\ mouse_x' = mouse_x
           /\ mouse_y' = mouse_y]_vars

\* an invalid start byte (0x05) was dropped at cycle 0, after the pointer had moved
C4_Witness ==
    /\ IsMouseByte
    /\ last.cycle = 0
    /\ last.data = 5
    /\ mouse_cycle = 0
    /\ mouse_x > 0

\* C5: the accumulated position always satisfies 0 <= x <= 79 and 0 <= y <= 24,
\* and so does the position in every delivered event and the one
\* get_mouse_position returns.
C5_PositionInGrid ==
    /\ mouse_x \in 0..79
    /\ mouse_y \in 0..24
    /\ get_mouse_position[1] \in 0..79
    /\ get_mouse_position[2] \in 0..24
    /\ \A i \in DOMAIN mouse_delivered :
           mouse_delivered[i].x \in 0..79 /\ mouse_delivered[i].y \in 0..24

\* a movement of 255 cells was clamped at the right edge and reported
C5_Witness ==
    /\ IsMouseByte
    /\ last.cycle = 2
    /\ mouse_packet[1] = 255
    /\ mouse_x = 79
    /\ Len(mouse_delivered) = 1
    /\ mouse_delivered[1].x = 79

\* C6: on the third byte, when bit 4 of byte 0 is set the X byte b is applied as
\* b - 256, and when bit 5 of byte 0 is set the Y byte b is applied as b - 256
\* (Y being subtracted).
C6_SignExtended ==
    [][(IsMouseByte' /\ mouse_cycle = 2) =>
           /\ TestBit(mouse_packet[0], 16) =>
                  mouse_x' = ClampRef(mouse_x + (mouse_packet[1] - 256), 0, 79)
           /\ TestBit(mouse_packet[0], 32) =>
                  mouse_y' = ClampRef(mouse_y - (last'.data - 256), 0, 24)]_vars

\* movement byte values tried from every grid position
MoveBytes == {0, 1, 3, 5, 24, 25, 79, 80, 127, 128, 255}

\* C7: for a packet whose byte 0 has bits 4 and 5 clear the new position is
\* clamp(x + Xbyte, 0, 79), clamp(y - Ybyte, 0, 24); bytes 0x08 0x05 0x03 from
\* (0,0) give x = 5, y = 0.
C7_UnsignedMove ==
    /\ \A x \in 0..79, y \in 0..24, bx \in MoveBytes, by \in MoveBytes :
           LET d == MouseDecode(x, y, 2, (0 :> 8) @@ (1 :> bx) @@ (2 :> 0), NULL, by)
           IN d.x = ClampRef(x + bx, 0, 79) /\ d.y = ClampRef(y - by, 0, 24)
    /\ [][(/\ IsMouseByte'
           /\ mouse_cycle = 2
           /\ ~TestBit(mouse_packet[0], 16)
           /\ ~TestBit(mouse_packet[0], 32)) =>
              /\ mouse_x' = ClampRef(mouse_x + mouse_packet[1], 0, 79)
              /\ mouse_y' = ClampRef(mouse_y - last'.data, 0, 24)
              /\ (/\ mouse_x = 0
                  /\ mouse_y = 0
                  /\ mouse_packet[0] = 8
                  /\ mouse_packet[1] = 5
                  /\ last'.data = 3) => (mouse_x' = 5 /\ mouse_y' = 0)]_vars

\* the packet 0x08 0x05 0x03 was just decoded and left the pointer at (5,0)
C7_Witness ==
    /\ IsMouseByte
    /\ last.cycle = 2
    /\ last.data = 3
    /\ mouse_packet[0] = 8
    /\ mouse_packet[1] = 5
    /\ mouse_x = 5
    /\ mouse_y = 0

\* C8: the event of a completed packet has buttons = byte0 & 0x07,
\* scroll = (byte0 >> 3) & 0x0F and x, y equal to the post-clamp position that
\* get_mouse_position returns; it is delivered once to the registered consumer,
\* and to nobody when none is registered.
C8_EventFields ==
    (IsMouseByte /\ last.cycle = 2) =>
        IF handler = NULL
        THEN mouse_delivered = <<>>
        ELSE mouse_delivered =
                 <<[buttons |-> mouse_packet[0] % 8,
                    x |-> get_mouse_position[1],
                    y |-> get_mouse_position[2],
                    scroll |-> (mouse_packet[0] \div 8) % 16]>>

\* a packet with all three buttons down (byte 0 = 0xFF) reached the consumer
C8_Witness ==
    /\ IsMouseByte
    /\ last.cycle = 2
    /\ handler # NULL
    /\ mouse_packet[0] = 255
    /\ Len(mouse_delivered) = 1
    /\ mouse_delivered[1].buttons = 7
    /\ mouse_delivered[1].scroll = 15

\* a delivery that ran keyboard_interrupt
IsKbdByte == IsDelivery /\ last.who = "keyboard_interrupt"

\* the six modifier bits of a keyboard state
ModifierBits(ks) ==
    <<ks.shift, ks.ctrl, ks.alt, ks.caps_lock, ks.num_lock, ks.scroll_lock>>

\* C9: for every key-press scancode s < 128 the event character is
\* keyboard_map[s], upper-cased exactly when shift is active and the mapped
\* character is a lower-case letter: 0x1E without shift gives 'a' with
\* pressed = true, and 0x2A followed by 0x1E gives 'A'.
C9_PressCharacter ==
    [][(IsKbdByte' /\ last'.data < 128) =>
           LET s == last'.data
               k == keyboard_map(s)
           IN /\ kbd_event'.pressed
              /\ kbd_event'.shift = keyboard_state'.shift
              /\ kbd_event'.key =
                     (IF keyboard_state'.shift /\ k \in 97..122 THEN k - 32 ELSE k)
              /\ (s = 30 /\ ~keyboard_state.shift) => kbd_event'.key = 97
              /\ (s = 30 /\ IsKbdByte /\ last.data = 42) => kbd_event'.key = 65]_vars

\* 0x1E was pressed while shift was held and 'A' reached the subscriber
C9_Witness ==
    /\ IsKbdByte
    /\ last.data = 30
    /\ kbd_event.pressed
    /\ kbd_event.shift
    /\ kbd_event.key = 65
    /\ Len(kbd_delivered) = 1

\* C10: a make or break code of a key other than 0x2A, 0x36, 0x1D, 0x38, 0x3A,
\* 0x45, 0x46 leaves the six modifier bits unchanged; a break code (bit 7 set)
\* yields an event with pressed = false.
C10_NonModifierKeepsState ==
    [][IsKbdByte' =>
           /\ (last'.data % 128) \notin {42, 54, 29, 56, 58, 69, 70} =>
                  ModifierBits(keyboard_state') = ModifierBits(keyboard_state)
           /\ last'.data >= 128 => ~kbd_event'.pressed]_vars

\* the break code 0x9E was processed while shift and caps lock were on
C10_Witness ==
    /\ IsKbdByte
    /\ last.data = 158
    /\ ~kbd_event.pressed
    /\ keyboard_state.shift
    /\ keyboard_state.caps_lock

\* the bytes written to the keyboard data port during the last step
IsKbdDataWrite(w) == w[1] = "out" /\ w[2] = KEYBOARD_DATA
KbdDataWrites == SelectSeq(port_writes, IsKbdDataWrite)

\* the three lock bits of a keyboard state
LockBits(ks) == <<ks.caps_lock, ks.num_lock, ks.scroll_lock>>

\* caps_lock flips on a press of 0x3A and on nothing else
CapsFlipsOnPressOnly ==
    IsKbdByte' =>
        keyboard_state'.caps_lock =
            (IF last'.data = 58 THEN ~keyboard_state.caps_lock
             ELSE keyboard_state.caps_lock)

RegistryEntry(v) ==
    IF build = "src" THEN TableGet(interrupt_handlers, v)
    ELSE TableGet(irq_handlers, v - IRQ_BASE)

\* both registries
Registries == <<interrupt_handlers, irq_handlers>>

\* C12: installing a handler on an IRQ vector 32..47 that already holds one
\* succeeds and replaces it, and every interrupt delivered on a line calls the
\* handler the line holds, which is the one installed last.
C12_SecondInstallReplaces ==
    /\ [](last.op = "register" /\ last.vec \in 32..47 =>
              /\ RegistryEntry(last.vec) = last.who
              /\ last.ret \in {"STATUS_SUCCESS", "void"})
    /\ [](IsDelivery /\ last.vec \in 32..47 => last.who = RegistryEntry(last.vec))
    /\ [][IsDelivery' => Registries' = Registries]_vars

\* handler_b was installed on the mouse line while it held handler_a
C12_Witness ==
    /\ last.op = "register"
    /\ last.vec = 44
    /\ last.prev = "handler_a"
    /\ last.who = "handler_b"
    /\ RegistryEntry(44) = "handler_b"

\* C13: uninstalling a line that holds no handler returns success (nothing, for
\* the void legacy call) and leaves every handler entry as it was.
C13_UninstallEmptyIsNoop ==
    [][(last'.op = "unregister" /\ last'.vec \in 32..47 /\ last'.prev = NULL) =>
           /\ Registries' = Registries
           /\ last'.ret \in {"STATUS_SUCCESS", "void"}]_vars

\* line 5 was uninstalled while empty, with a handler present on another line
C13_Witness ==
    /\ last.op = "unregister"
    /\ last.vec = 37
    /\ last.prev = NULL
    /\ RegistryEntry(37) = NULL
    /\ RegistryEntry(44) = "handler_a"

\* a register_driver call was just made
IsRegisterDriver == last.op = "register_driver"

\* a registered descriptor carries the name of descriptor drv
NameTaken(drv) ==
    /\ drv \notin {NULL, "unnamed"}
    /\ \E i \in 1..Len(drivers) : drivers[i] = drv

\* C14: register_driver returns DRIVER_ERROR for a descriptor whose name is the
\* name of a registered descriptor and leaves the registry and its count
\* unchanged; no two registered descriptors share a name.
C14_DuplicateNameRejected ==
    /\ [](\A i, j \in 1..Len(drivers) :
              (i # j /\ drivers[i] # "unnamed") => drivers[i] # drivers[j])
    /\ [][(IsRegisterDriver' /\ NameTaken(last'.who)) =>
              /\ last'.ret = "DRIVER_ERROR"
              /\ drivers' = drivers
              /\ num_drivers' = num_drivers]_vars

\* drv02 was offered a second time while the registry had room, and refused
C14_Witness ==
    /\ IsRegisterDriver
    /\ last.who = "drv02"
    /\ last.ret = "DRIVER_ERROR"
    /\ drivers = <<"drv01", "drv02", "drv03">>

\* C15: a descriptor with a new name is accepted while fewer than 32 are
\* registered, so 32 can be registered; any registration attempted with 32
\* present returns DRIVER_ERROR and changes nothing; the count never exceeds 32.
C15_CapacityThirtyTwo ==
    /\ [](num_drivers <= 32)
    /\ [][IsRegisterDriver' =>
              /\ (/\ num_drivers < 32
                  /\ last'.who \notin {NULL, "unnamed"}
                  /\ ~NameTaken(last'.who)) =>
                     /\ last'.ret = "DRIVER_OK"
                     /\ drivers' = Append(drivers, last'.who)
              /\ num_drivers = 32 =>
                     /\ last'.ret = "DRIVER_ERROR"
                     /\ drivers' = drivers]_vars

\* thirty-two distinct names are registered and the thirty-third was refused
C15_Witness ==
    /\ IsRegisterDriver
    /\ num_drivers = 32
    /\ drivers = SubSeq(DriverNames, 1, 32)
    /\ last.who = DriverNames[33]
    /\ last.ret = "DRIVER_ERROR"

\* the subscriber list: handlers[0 .. num_handlers-1] as a sequence
Subscribers ==
    [k \in 1..keyboard_state.num_handlers |-> keyboard_state.handlers[k - 1]]

IsKbdRegister == last.op = "keyboard_register_handler"

\* C16: keyboard_register_handler appends a non-null handler while fewer than 8
\* are subscribed; with 8 subscribed it returns STATUS_BUSY at once (it polls and
\* writes no port) and leaves the subscriber list unchanged; num_handlers stays
\* within 0..8.
C16_EightSubscribers ==
    /\ [](keyboard_state.num_handlers \in 0..8)
    /\ [][IsKbdRegister' =>
              /\ port_writes' = <<>>
              /\ (keyboard_state.num_handlers < 8 /\ last'.who # NULL) =>
                     /\ last'.ret = "STATUS_SUCCESS"
                     /\ Subscribers' = Append(Subscribers, last'.who)
              /\ (keyboard_state.num_handlers = 8 /\ last'.who # NULL) =>
                     /\ last'.ret = "STATUS_BUSY"
                     /\ keyboard_state' = keyboard_state]_vars

\* a ninth subscription was refused with eight present
C16_Witness ==
    /\ IsKbdRegister
    /\ last.who = "sub_a"
    /\ last.ret = "STATUS_BUSY"
    /\ keyboard_state.num_handlers = 8

\* how many times handler h occurs in the sequence q
Occurrences(q, h) == Cardinality({k \in 1..Len(q) : q[k] = h})

\* the sequence q without its first occurrence of h
RemoveFirst(q, h) ==
    LET hits == {k \in 1..Len(q) : q[k] = h}
        at == CHOOSE k \in hits : \A m \in hits : k <= m
    IN IF hits = {} THEN q
       ELSE [k \in 1..(Len(q) - 1) |-> IF k < at THEN q[k] ELSE q[k + 1]]

\* registering appends to the subscriber list, unregistering removes the
\* handler's first entry and keeps the others in order
SubscribersKeepOrder ==
    /\ (IsKbdRegister' /\ last'.ret = "STATUS_SUCCESS") =>
           Subscribers' = Append(Subscribers, last'.who)
    /\ last'.op = "keyboard_unregister_handler" =>
           Subscribers' = RemoveFirst(Subscribers, last'.who)

EventModifiers(e) ==
    <<e.shift, e.ctrl, e.alt, e.caps_lock, e.num_lock, e.scroll_lock>>

\* C18: every scancode byte the keyboard interrupt reads produces one event,
\* handed once to each subscriber, that carries the raw byte, the pressed flag
\* and the six modifier bits as they are after the scancode's own modifier
\* update (shift is set in the event of a shift press, cleared in the event of
\* its release, a lock bit is already flipped in the event of its press); a
\* scancode whose table entry is 0 still produces the event, with key = 0.
C18_OneEventPerScancode ==
    [][IsKbdByte' =>
           /\ kbd_delivered' = Subscribers
           /\ kbd_event'.scancode = last'.data
           /\ kbd_event'.pressed = (last'.data < 128)
           /\ EventModifiers(kbd_event') = ModifierBits(keyboard_state')
           /\ last'.data \in {42, 54} => kbd_event'.shift
           /\ last'.data \in {170, 182} => ~kbd_event'.shift
           /\ last'.data = 58 => kbd_event'.caps_lock = ~keyboard_state.caps_lock
           /\ keyboard_map(last'.data % 128) = 0 => kbd_event'.key = 0]_vars

\* the left-shift press, which has no character, reached the subscriber with
\* shift already set in its snapshot
C18_Witness ==
    /\ IsKbdByte
    /\ last.data = 42
    /\ kbd_event.scancode = 42
    /\ kbd_event.pressed
    /\ kbd_event.shift
    /\ kbd_event.key = 0
    /\ kbd_delivered = <<"keyboard_handler">>

\* everything the drivers and the registries own
DriverState ==
    <<mouse_x, mouse_y, mouse_cycle, mouse_packet, handler, keyboard_state,
      timer_ticks, drivers, interrupt_handlers, irq_handlers>>

\* C19: get_mouse_position returns the position left by the most recently
\* completed packet -- (0,0) before the first -- whether or not a consumer is
\* registered and whatever part of a further packet has arrived, and changes no
\* driver state.  The position starts at (0,0), changes only in the step that
\* completes a packet, and is what the call stores.
C19_PositionQuery ==
    /\ (mouse_x = 0 /\ mouse_y = 0)
    /\ [][<<mouse_x, mouse_y>>' # <<mouse_x, mouse_y>> =>
              (IsMouseByte' /\ mouse_cycle = 2)]_vars
    /\ [][last'.op = "get_mouse_position" =>
              /\ last'.out = <<mouse_x, mouse_y>>
              /\ last'.out[1] \in 0..79
              /\ last'.out[2] \in 0..24
              /\ DriverState' = DriverState]_vars

\* the position (5,0) of the last packet was read back with no consumer
\* registered and one byte of the next packet received
C19_Witness ==
    /\ last.op = "get_mouse_position"
    /\ last.out = <<5, 0>>
    /\ handler = NULL
    /\ mouse_cycle = 1

\* --- C20 -------------------------------------------------------------------
\* C20: keyboard_init returns STATUS_DEVICE_ERROR, leaves keyboard_interrupt
\* unregistered and does not unmask IRQ 1 whenever any step of the handshake
\* fails: a response that is not the expected byte, a timeout while waiting to
\* read, or a timeout while waiting to send.
IsKbdInit == last.op = "keyboard_init"

HandshakeResponses ==
    <<KEYBOARD_RES_ACK, KEYBOARD_RES_SELF_TEST_OK, KEYBOARD_RES_ACK, KEYBOARD_RES_ACK>>

IsPic1DataWrite(w) == w[1] = "out" /\ w[2] = PIC1_DATA

KbdInitAborted ==
    /\ last'.ret = "STATUS_DEVICE_ERROR"
    /\ interrupt_handlers' = interrupt_handlers
    /\ pic_mask' = pic_mask
    /\ \A i \in 1..Len(port_writes') : ~IsPic1DataWrite(port_writes'[i])

C20_AnyFailureAborts ==
    [][(IsKbdInit' /\ (\/ last'.resp # HandshakeResponses
                       \/ \E i \in 1..3 : ~last'.rdy[i]))
           => KbdInitAborted]_vars

\* --- C21 -------------------------------------------------------------------
\* C21: when an expect-ACK step or the self-test step of init_mouse fails
\* (timeout or wrong byte), init_mouse returns at once: mouse_handler is not
\* installed, IRQ line 12 is left masked (no unmasking write to the slave's data
\* port), and the mouse driver is not added to the driver registry.
IsMouseInit == last.op = "init_mouse"

MouseHandshakeResponses == <<MOUSE_ACK, MOUSE_ACK, MOUSE_SELF_TEST, MOUSE_ACK, MOUSE_ACK>>

IsSlaveUnmask12(w) == w[1] = "out" /\ w[2] = PIC2_DATA /\ ~TestBit(w[3], 16)

C21_MouseInitFailureAborts ==
    [][(IsMouseInit' /\ last'.resp # MouseHandshakeResponses) =>
           /\ interrupt_handlers' = interrupt_handlers
           /\ drivers' = drivers
           /\ ~PicLineOpen(pic_mask', MOUSE_IRQ)
           /\ \A i \in 1..Len(port_writes') : ~IsSlaveUnmask12(port_writes'[i])
           /\ port_writes'[1] = Out(PIC2_DATA, pic_mask'[2])]_vars

\* a first init_mouse whose self-test read times out after two ACKs
C21_Witness ==
    /\ IsMouseInit
    /\ last.resp = <<MOUSE_ACK, MOUSE_ACK, -1, -1, -1>>
    /\ TableGet(interrupt_handlers, IRQ_BASE + MOUSE_IRQ) = NULL
    /\ drivers = <<>>
    /\ pic_mask = <<248, 255>>

\* --- C22 -------------------------------------------------------------------
\* C22: every bring-up routine (src keyboard_init and init_mouse, legacy
\* init_keyboard and init_mouse) returns after a bounded number of status-port
\* reads whatever the device does, a device whose status bits never change
\* included: under every behaviour of the status port the routine eventually
\* returns.
HandshakeReturned == thread.pc = "returned"

C22_HandshakeTerminates == <>HandshakeReturned

\* --- C23 -------------------------------------------------------------------
\* a mouse interrupt was delivered while status bit 5 (mouse data) was clear
IsSpuriousMouse == IsDelivery /\ last.who = "mouse_handler" /\ ~TestBit(last.status, 32)

\* C23 as stated: on a mouse interrupt without the mouse-data status bit the byte
\* is dropped; at cycle 0 decode state and position are undisturbed, inside a
\* packet (cycle 1 or 2) the decoder is reset to cycle 0.
C23_SpuriousResetsInsidePacket ==
    [][IsSpuriousMouse' =>
           /\ mouse_decoded' = 0
           /\ mouse_delivered' = <<>>
           /\ mouse_cycle = 0 => mouse_vars' = mouse_vars
           /\ mouse_cycle \in {1, 2} => mouse_cycle' = 0]_vars

\* C23 (amended): on a mouse interrupt without the mouse-data status bit the
\* handler returns before reading the data port: no byte is decoded, no event is
\* delivered, and cycle, packet buffer and position are left as they were at
\* every cycle, inside a packet too (the decoder is not reset).
C23_SpuriousLeavesDecoder ==
    [][IsSpuriousMouse' =>
           /\ mouse_decoded' = 0
           /\ mouse_delivered' = <<>>
           /\ mouse_vars' = mouse_vars
           /\ last'.data = 0]_vars

\* a spurious interrupt arrived after the first byte of a packet: still cycle 1
C23_Witness ==
    /\ IsSpuriousMouse
    /\ last.cycle = 1
    /\ mouse_cycle = 1
    /\ mouse_packet[0] = 8

\* --- C24 -------------------------------------------------------------------
InCritical == thread.pc \in {"reg_write", "reg_restore"}

RegistryWritten ==
    interrupt_handlers' # interrupt_handlers \/ irq_handlers' # irq_handlers

HandlerLine(h) ==
    CASE h = "timer_callback" -> TIMER_IRQ
      [] h \in {"keyboard_interrupt", "keyboard_irq_handler"} -> KEYBOARD_IRQ
      [] h = "mouse_handler" -> MOUSE_IRQ

\* the handler installed for hardware line n
LineHandlerIn(ih, lh, n) ==
    IF build = "src" THEN TableGet(ih, n + 32) ELSE TableGet(lh, n)

LineHandler(n) == LineHandlerIn(interrupt_handlers, irq_handlers, n)

\* C25: hardware line n (0..15) reaches the dispatch routine as vector n + 32
\* (PIC offset, IDT gate and the number the stub pushes agree), every device
\* module installs its handler for line + 32 (timer 32, keyboard 33, mouse 44),
\* and a delivery calls exactly the handler installed for its line.
C25_LinePlus32 ==
    /\ [](\A n \in 0..15 : LineVector(build, n) = n + 32)
    /\ [][(last'.op = "register" /\ last'.who # NULL) =>
              /\ last'.vec = 32 + HandlerLine(last'.who)
              /\ LineHandlerIn(interrupt_handlers', irq_handlers',
                               HandlerLine(last'.who)) = last'.who]_vars
    /\ [][IsDelivery' =>
              /\ last'.vec \in 32..47
              /\ last'.who = LineHandler(last'.vec - 32)
              /\ last'.who # NULL => last'.vec = 32 + HandlerLine(last'.who)]_vars

\* an interrupt on line 12 reached mouse_handler through vector 44 while the
\* timer and keyboard handlers were installed too
C25_Witness ==
    /\ IsDelivery
    /\ last.vec = 44
    /\ last.who = "mouse_handler"
    /\ build = "src"
    /\ LineHandler(0) = "timer_callback"
    /\ LineHandler(1) = "keyboard_interrupt"

\* --- C26 -------------------------------------------------------------------
\* a statement of kernel_main that sets up the interrupt system has just run
IsBootInit ==
    last.op \in {"idt_install", "irq_init", "pic_init", "timer_init", "keyboard_init",
                 "keyboard_register_handler", "init_mouse", "window_setup"}

\* C26: on every boot path that reaches the main loop, sti is the last step:
\* interrupts are enabled only in the main loop, where the IDT is loaded, the
\* PICs are remapped to 32 / 40 and the timer and keyboard handlers are
\* installed; every set-up statement (mouse bring-up included) runs and returns
\* with the interrupt flag clear; the flag is set by the sti statement only, and
\* no interrupt is dispatched before it.
C26_StiLast ==
    /\ [](iflag =>
              /\ thread.pc = "main_loop"
              /\ idt_loaded
              /\ pic_base = <<32, 40>>
              /\ TableGet(interrupt_handlers, 32) = "timer_callback"
              /\ TableGet(interrupt_handlers, 33) = "keyboard_interrupt")
    /\ [][IsBootInit' => (~iflag /\ ~iflag')]_vars
    /\ [][iflag' # iflag => (last'.op = "sti" /\ iflag' /\ thread'.pc = "main_loop")]_vars
    /\ [][IsDelivery' => (iflag /\ thread.pc = "main_loop")]_vars
    /\ [][thread'.pc = "main_loop" => (thread.pc = "main_loop" \/ last'.op = "sti")]_vars

\* the first interrupt after sti: a timer tick taken in the main loop of a boot
\* whose mouse bring-up succeeded
C26_Witness ==
    /\ IsDelivery
    /\ last.who = "timer_callback"
    /\ timer_ticks = 1
    /\ thread.pc = "main_loop"
    /\ TableGet(interrupt_handlers, 44) = "mouse_handler"

\* --- C27 -------------------------------------------------------------------
\* a byte sent to the 8042 (data port 0x60 or command port 0x64)
IsHandshakeWrite(w) == w[1] = "out" /\ w[2] \in {MOUSE_PORT, MOUSE_CMD}

\* line irq is masked at the controller when each handshake byte of the
\* sequence writes is sent, the mask registers being masks when it starts
MaskedThroughHandshake(masks, writes, irq) ==
    \A i \in 1..Len(writes) :
        IsHandshakeWrite(writes[i]) => ~PicLineOpen(PicMaskAfter(masks, writes, i - 1), irq)

\* the unmasking write of line irq, if any, comes after every handshake byte
UnmaskComesLast(masks, writes, irq) ==
    \A i \in 1..Len(writes) :
        (/\ ~PicLineOpen(PicMaskAfter(masks, writes, i - 1), irq)
         /\ PicLineOpen(PicMaskAfter(masks, writes, i), irq))
            => i = Len(writes)

\* C27 as stated: for the keyboard (line 1) and the mouse (line 12) the line is
\* masked at the interrupt controller throughout the device's initialization
\* handshake.
C27_LineMaskedThroughHandshake ==
    /\ [][IsKbdInit' => MaskedThroughHandshake(pic_mask, port_writes', KEYBOARD_IRQ)]_vars
    /\ [][IsMouseInit' => MaskedThroughHandshake(pic_mask, port_writes', MOUSE_IRQ)]_vars

\* C27 (amended): init_mouse masks line 12 before its first handshake byte and
\* the line stays masked at the controller for the whole handshake; its unmasking
\* write is the last port write and happens only when the handshake succeeded.
\* keyboard_init never masks line 1: pic_init has opened it (mask 0xF8) before
\* keyboard_init is called, so the line is open at the controller during the
\* keyboard handshake, and keyboard_init's own unmasking write, issued last and
\* only on success, changes nothing.  During both handshakes the CPU interrupt
\* flag is clear, which is what keeps the device's interrupt from being taken.
C27_HandshakeBeforeUnmask ==
    /\ [][IsMouseInit' =>
             /\ MaskedThroughHandshake(pic_mask, port_writes', MOUSE_IRQ)
             /\ UnmaskComesLast(pic_mask, port_writes', MOUSE_IRQ)
             /\ PicLineOpen(pic_mask', MOUSE_IRQ) = (last'.resp = MouseHandshakeResponses)
             /\ pic_mask' = PicMaskAfter(pic_mask, port_writes', Len(port_writes'))
             /\ ~iflag /\ ~iflag']_vars
    /\ [][IsKbdInit' =>
             /\ PicLineOpen(pic_mask, KEYBOARD_IRQ)
             /\ pic_mask' = pic_mask
             /\ pic_mask' = PicMaskAfter(pic_mask, port_writes', Len(port_writes'))
             /\ \A i \in 1..Len(port_writes') :
                    IsPic1DataWrite(port_writes'[i]) =>
                        (i = Len(port_writes') /\ last'.ret = "STATUS_SUCCESS")
             /\ ~iflag /\ ~iflag']_vars

\* the mouse bring-up of a boot has just succeeded: line 12 went from open
\* (pic_init) to masked (handshake) to open again, with interrupts still off
C27_Witness ==
    /\ IsMouseInit
    /\ last.resp = MouseHandshakeResponses
    /\ port_writes[1] = Out(PIC2_DATA, 255)
    /\ port_writes[Len(port_writes)] = Out(PIC2_DATA, 239)
    /\ pic_mask = <<248, 239>>
    /\ TableGet(interrupt_handlers, IRQ_BASE + 1) = "keyboard_interrupt"
    /\ thread.pc = "kernel_main"
    /\ ~iflag

\* --- C28 -------------------------------------------------------------------
\* a device bring-up of the boot has just reported or met a failure
KbdInitFailed == IsKbdInit /\ last.ret = "STATUS_DEVICE_ERROR"
MouseInitFailed == IsMouseInit /\ last.resp # MouseHandshakeResponses

\* kernel_main is in its idle loop with interrupts enabled
IdleLoopEnabled == thread.pc = "main_loop" /\ iflag

IsRegisterCall == last.op \in {"register", "unregister"}

\* C29 as stated: interrupt_register_handler accepts every vector number in
\* 0..255 (the handler is stored and STATUS_SUCCESS returned), the vector table
\* holds a descriptor for each of them, and every entry of the registry is
\* inside 0..255.
C29_AllVectorsCovered ==
    /\ [][last'.op = "register" =>
              /\ last'.ret = "STATUS_SUCCESS"
              /\ TableGet(interrupt_handlers', last'.vec) = last'.who]_vars
    /\ [](\A v \in 0..255 : VectorInIdt(v))

\* C29 (amended): the vector table and the handler registry have 255 entries,
\* for the vectors 0..254.  interrupt_register_handler and
\* interrupt_unregister_handler accept exactly these and reject 255 with
\* STATUS_INVALID_PARAM, leaving the registry as it was; the IDT limit leaves
\* vector 255 without a descriptor.  Dispatch does not check the number it is
\* given, but it is entered only through the gates of vectors 0, 1 and 32..47,
\* whose stubs push their own vector number, so every read of the registry is
\* inside the table.
C29_Vectors0To254 ==
    /\ [][IsRegisterCall' =>
              /\ (last'.ret = "STATUS_SUCCESS") = (last'.vec \in 0..(MAX_INTERRUPTS - 1))
              /\ (last'.ret = "STATUS_INVALID_PARAM") = (last'.vec = 255)
              /\ last'.ret = "STATUS_SUCCESS" =>
                     TableGet(interrupt_handlers', last'.vec) = last'.who
              /\ last'.ret = "STATUS_INVALID_PARAM" =>
                     interrupt_handlers' = interrupt_handlers]_vars
    /\ [](/\ DOMAIN interrupt_handlers \subseteq 0..(MAX_INTERRUPTS - 1)
          /\ \A v \in 0..255 : VectorInIdt(v) = (v # 255))
    /\ [][IsDelivery' =>
              /\ last'.vec \in 0..(MAX_INTERRUPTS - 1)
              /\ VectorInIdt(last'.vec)
              /\ last'.who = TableGet(interrupt_handlers, last'.vec)]_vars

\* with a handler installed at vector 254, a registration at 255 is rejected
C29_Witness ==
    /\ last.op = "register"
    /\ last.vec = 255
    /\ last.ret = "STATUS_INVALID_PARAM"
    /\ TableGet(interrupt_handlers, MAX_INTERRUPTS - 1) = "handler_a"
    /\ TableGet(interrupt_handlers, 255) = NULL

\* --- C30 -------------------------------------------------------------------
\* C30: after an interrupt has been delivered on an IRQ line, the line is
\* always eventually re-armed: the in-service bits the delivery set in the PICs
\* are cleared again by an EOI, so that a later interrupt on the line can be
\* delivered; this includes a spurious mouse interrupt and an interrupt on a
\* line that has no handler.
C30_LineRearmed == (in_service # {}) ~> (in_service = {})

\* --- C31 -------------------------------------------------------------------
\* the lines a pair of mask registers leaves open
OpenLines(masks) == {i \in 0..(IRQ_COUNT - 1) : PicLineOpen(masks, i)}

IsPicInit == last.op = "pic_init"

\* C31 as stated: after pic_init the unmasked lines are exactly 0, 1, 2 and 12.
C31_OnlyLinesInUseOpen == IsPicInit => OpenLines(pic_mask) = {0, 1, 2, MOUSE_IRQ}

\* C31 (amended): after the src pic_init the unmasked lines are exactly 0
\* (timer), 1 (keyboard), 2 (cascade) and 12 (mouse), whatever the masks were
\* before; the two mask writes are its last port writes and carry 0xF8 and 0xEF.
\* After the legacy pic_init all sixteen lines are unmasked.
C31_OpenLinesAfterPicInit ==
    IsPicInit =>
        /\ build = "src" =>
               /\ OpenLines(pic_mask) = {TIMER_IRQ, KEYBOARD_IRQ, 2, MOUSE_IRQ}
               /\ port_writes[Len(port_writes) - 1] = Out(PIC1_DATA, 248)
               /\ port_writes[Len(port_writes)] = Out(PIC2_DATA, 239)
        /\ build = "legacy" => OpenLines(pic_mask) = 0..(IRQ_COUNT - 1)
        /\ pic_mask = PicMaskAfter(<<255, 255>>, port_writes, Len(port_writes))
        /\ pic_base = <<32, 40>>

\* the src pic_init has just run
C31_Witness ==
    /\ IsPicInit
    /\ build = "src"
    /\ pic_mask = <<248, 239>>
    /\ ~PicLineOpen(pic_mask, 3)
    /\ PicLineOpen(pic_mask, MOUSE_IRQ)

\* --- C32 -------------------------------------------------------------------
\* a write to a port of the master (1) or the slave (2) controller
PicChip(w) ==
    CASE w[1] = "out" /\ w[2] \in {PIC1_COMMAND, PIC1_DATA} -> 1
      [] w[1] = "out" /\ w[2] \in {PIC2_COMMAND, PIC2_DATA} -> 2
      [] OTHER -> 0

IsPicWrite(w) == PicChip(w) # 0

\* one call of io_wait(): the src one polls port 0x64, the legacy one writes
\* port 0x80
IsIoWait(w) == w = IoWaitSrc \/ w = IoWaitLegacy

\* the i-th port access is a controller write directly followed by io_wait()
DelayFollows(writes, i) == i < Len(writes) /\ IsIoWait(writes[i + 1])

IsPicCall == last.op \in {"pic_mask_irq", "pic_unmask_irq", "pic_send_eoi"}

\* C32 as stated: every write to an interrupt-controller port is followed by the
\* I/O delay before the next access.
C32_DelayAfterEveryPicWrite ==
    \A i \in 1..Len(port_writes) :
        IsPicWrite(port_writes[i]) => DelayFollows(port_writes, i)

\* C32 (amended): the eight initialization command words of pic_init are each
\* followed by io_wait(), in both builds, and so are the two mask writes of the
\* legacy pic_init.  The two mask writes that end the src pic_init, the write
\* of pic_mask_irq and of pic_unmask_irq, and the one or two EOI writes of
\* pic_send_eoi are followed by no delay.  Writes issued without a delay between
\* them always go to different controllers.
C32_DelayAfterCommandWords ==
    /\ IsPicInit =>
           /\ Len(port_writes) >= 10
           /\ \A i \in 1..Len(port_writes) :
                  IsPicWrite(port_writes[i]) =>
                      (DelayFollows(port_writes, i)
                          = ~(build = "src" /\ i >= Len(port_writes) - 1))
           /\ build = "src" =>
                  /\ IsPicWrite(port_writes[Len(port_writes) - 1])
                  /\ IsPicWrite(port_writes[Len(port_writes)])
    /\ IsPicCall =>
           /\ port_writes # <<>>
           /\ \A i \in 1..Len(port_writes) : IsPicWrite(port_writes[i])
    /\ \A i \in 1..Len(port_writes) :
           (i < Len(port_writes) /\ IsPicWrite(port_writes[i])
                /\ IsPicWrite(port_writes[i + 1]))
               => PicChip(port_writes[i]) # PicChip(port_writes[i + 1])

\* pic_send_eoi(12): the slave's EOI and the master's EOI back to back
C32_Witness ==
    /\ last.op = "pic_send_eoi"
    /\ last.vec = MOUSE_IRQ
    /\ port_writes = <<Out(PIC2_COMMAND, PIC_EOI), Out(PIC1_COMMAND, PIC_EOI)>>

\* --- C33 -------------------------------------------------------------------
\* register pair n differs from m in the mask bit of line irq at most, and that
\* bit is open in n exactly when open is TRUE
OnlyLineChanged(m, n, irq, open) ==
    /\ PicLineOpen(n, irq) = open
    /\ \A i \in (0..(IRQ_COUNT - 1)) \ {irq} : PicLineOpen(n, i) = PicLineOpen(m, i)
    /\ n[1] \in 0..255
    /\ n[2] \in 0..255
    /\ irq < 8 => n[2] = m[2]
    /\ irq >= 8 => n[1] = m[1]

\* the data port of the controller that owns line irq
PicDataPort(irq) == IF irq < 8 THEN PIC1_DATA ELSE PIC2_DATA

\* C33: for every irq in 0..15, pic_mask_irq sets and pic_unmask_irq clears
\* exactly the mask bit of that line (bit irq of the master for lines 0..7, bit
\* irq - 8 of the slave for lines 8..15) with one write to that controller's
\* data port, leaving every other bit of both registers unchanged; each is
\* idempotent, and mask followed by unmask of the same line leaves the bit clear.
C33_SingleBit ==
    /\ [][last'.op = "pic_mask_irq" =>
              /\ OnlyLineChanged(pic_mask, pic_mask', last'.vec, FALSE)
              /\ port_writes' =
                     <<Out(PicDataPort(last'.vec),
                           IF last'.vec < 8 THEN pic_mask'[1] ELSE pic_mask'[2])>>]_vars
    /\ [][last'.op = "pic_unmask_irq" =>
              /\ OnlyLineChanged(pic_mask, pic_mask', last'.vec, TRUE)
              /\ port_writes' =
                     <<Out(PicDataPort(last'.vec),
                           IF last'.vec < 8 THEN pic_mask'[1] ELSE pic_mask'[2])>>]_vars
    /\ [](\A irq \in 0..(IRQ_COUNT - 1) :
              /\ PicMask(PicMask(pic_mask, irq), irq) = PicMask(pic_mask, irq)
              /\ PicUnmask(PicUnmask(pic_mask, irq), irq) = PicUnmask(pic_mask, irq)
              /\ OnlyLineChanged(pic_mask, PicUnmask(PicMask(pic_mask, irq), irq), irq, TRUE)
              /\ OnlyLineChanged(pic_mask, PicMask(PicUnmask(pic_mask, irq), irq), irq, FALSE))

\* from all lines masked, pic_unmask_irq(12) has opened the mouse line only
C33_Witness ==
    /\ last.op = "pic_unmask_irq"
    /\ last.vec = MOUSE_IRQ
    /\ pic_mask = <<255, 239>>
    /\ port_writes = <<Out(PIC2_DATA, 239)>>

MouseInitUnderWay == thread # MouseInitAt(1)

MouseHandlerInstalled == TableGet(interrupt_handlers, IRQ_BASE + MOUSE_IRQ) = "mouse_handler"

\* C35: init_mouse masks IRQ line 12 as its first action and the line stays
\* masked during the whole handshake; the line is unmasked only on the fully
\* successful path and only after mouse_handler has been installed at vector
\* 44, so from the first statement of init_mouse on line 12 is never open while
\* no mouse handler is installed, and no mouse interrupt is taken without it.
C35_MaskedUntilInstalled ==
    /\ [][thread = MouseInitAt(1) =>
              ((last'.op = "mouse_init_mask" /\ ~PicLineOpen(pic_mask', MOUSE_IRQ))
                   \/ (IsDelivery' /\ thread' = thread))]_vars
    /\ [][last'.op = "mouse_init_handshake" =>
              /\ ~PicLineOpen(pic_mask, MOUSE_IRQ)
              /\ UNCHANGED <<pic_mask, interrupt_handlers>>
              /\ \A i \in 1..Len(port_writes') : ~IsPicWrite(port_writes'[i])
              /\ (thread'.pc = "init_mouse") = (last'.resp = MouseHandshakeResponses)]_vars
    /\ [][(~PicLineOpen(pic_mask, MOUSE_IRQ) /\ PicLineOpen(pic_mask', MOUSE_IRQ)) =>
              /\ last'.op = "mouse_init_unmask"
              /\ MouseHandlerInstalled
              /\ port_writes' = <<Out(PIC2_DATA, pic_mask'[2])>>]_vars
    /\ [][MouseHandlerInstalled' # MouseHandlerInstalled =>
              (last'.op = "mouse_init_register" /\ ~PicLineOpen(pic_mask, MOUSE_IRQ))]_vars
    /\ [](MouseInitUnderWay =>
              (PicLineOpen(pic_mask, MOUSE_IRQ) => MouseHandlerInstalled))
    /\ [][(IsDelivery' /\ MouseInitUnderWay) => last'.who = "mouse_handler"]_vars

\* after a successful handshake mouse_handler is installed and line 12 is still
\* masked: the unmasking is the statement to come
C35_Witness ==
    /\ last.op = "mouse_init_register"
    /\ MouseInitNow = "pic_unmask_irq"
    /\ MouseHandlerInstalled
    /\ ~PicLineOpen(pic_mask, MOUSE_IRQ)
    /\ iflag

\* --- C36 -------------------------------------------------------------------
\* the common stub has built the context and calls the C dispatch routine
InHandlerCall == cpu.pc = "interrupt_handler"

\* between the processor's return frame and the saved registers lie exactly the
\* error code and the vector number, the error code being the processor's where
\* it pushed one and a pushed zero where it did not
TwoWordFrame ==
    LET ctx == Context(cpu.stack)
    IN /\ Len(cpu.stack) = Len(cpu.entry_stack) + 3 + 2 + 8 + 4 + 1
       /\ <<ctx.eflags, ctx.cs, ctx.eip>> = CpuFrame
       /\ ctx.int_no = cpu.vec
       /\ ctx.err_code = (IF cpu.err = <<>> THEN 0 ELSE cpu.err[1])
       /\ \A i \in 1..Len(GeneralRegs) : ctx[GeneralRegs[i]] = cpu.entry_regs[GeneralRegs[i]]
       /\ \A i \in 1..Len(SegmentRegs) : ctx[SegmentRegs[i]] = cpu.entry_regs[SegmentRegs[i]]

\* the interrupted code runs again with the stack and registers it had
ResumedIntact ==
    /\ cpu.stack = cpu.entry_stack
    /\ cpu.regs = cpu.entry_regs
    /\ cpu.ret = <<CpuFrame[3], CpuFrame[2], CpuFrame[1]>>

DeviceLines == {TIMER_IRQ, KEYBOARD_IRQ, MOUSE_IRQ}

\* line n is open at its controller and a callback is registered for its vector
OpenLineHandled(n) ==
    PicLineOpen(pic_mask, n) => TableGet(interrupt_handlers, IRQ_BASE + n) # NULL

\* C37: when kernel_main enables interrupts, and in every state after that,
\* each unmasked device line (0 timer, 1 keyboard, 12 mouse) has a callback in
\* the registry, and no interrupt from a device line is dispatched unhandled.
C37_OpenLinesHandled ==
    /\ [](iflag => \A n \in DeviceLines : OpenLineHandled(n))
    /\ [][last'.op = "sti" => (iflag' /\ \A n \in DeviceLines : OpenLineHandled(n)')]_vars
    /\ [][(IsDelivery' /\ last'.vec \in {IRQ_BASE + n : n \in DeviceLines}) =>
              last'.who # NULL]_vars

\* interrupts are on after a boot in which the mouse did not answer: line 12 is
\* masked and has no callback, and a timer interrupt has just been handled
C37_Witness ==
    /\ iflag
    /\ IsDelivery
    /\ last.vec = IRQ_BASE + TIMER_IRQ
    /\ last.who # NULL
    /\ ~PicLineOpen(pic_mask, MOUSE_IRQ)
    /\ TableGet(interrupt_handlers, IRQ_BASE + MOUSE_IRQ) = NULL
    /\ PicLineOpen(pic_mask, KEYBOARD_IRQ)

\* --- C38 -------------------------------------------------------------------
Updating == thread.pc \in {"keyboard_unregister_handler", "keyboard_register_handler"}

\* the subscriber list as it was when the update in progress began
SubscribersAtEntry ==
    CASE thread.pc = "keyboard_unregister_handler" ->
             [k \in 1..keyboard_state.num_handlers |->
                 IF k - 1 < thread.timeout THEN keyboard_state.handlers[k - 1]
                 ELSE IF k - 1 = thread.timeout THEN thread.who
                 ELSE IF k - 1 <= thread.vec THEN keyboard_state.handlers[k - 2]
                 ELSE keyboard_state.handlers[k - 1]]
      [] thread.pc = "keyboard_register_handler" ->
             [k \in 1..thread.vec |-> keyboard_state.handlers[k - 1]]
      [] OTHER -> Subscribers

\* the handler being removed, if the update in progress is a removal
BeingRemoved ==
    IF thread.pc = "keyboard_unregister_handler" THEN {thread.who} ELSE {}

\* C38: a keyboard interrupt delivered while non-interrupt code is in the
\* middle of keyboard_unregister_handler or keyboard_register_handler still
\* hands the event exactly once to every subscriber other than the one being
\* removed: none is invoked twice, none is skipped.
C38_OnceDuringUpdate ==
    [][(Updating /\ IsKbdByte') =>
           \A h \in RaceHandlers \ BeingRemoved :
               Occurrences(SubscribersAtEntry, h) = 1 =>
                   Occurrences(kbd_delivered', h) = 1]_vars

\* --- C39 -------------------------------------------------------------------
Subscribed(h) == Occurrences(Subscribers, h) > 0

\* C39 as stated: a consumer registered with keyboard_register_handler stays
\* subscribed until keyboard_unregister_handler removes it; in particular
\* keyboard_init does not remove subscribers registered before it.
C39_SubscribedUntilUnregistered ==
    [][\A h \in SubHandlers :
           (Subscribed(h) /\ ~Subscribed(h)') =>
               (last'.op = "keyboard_unregister_handler" /\ last'.who = h)]_vars

\* C39, amended: a consumer stays subscribed until keyboard_unregister_handler
\* removes it or keyboard_init is called; keyboard_init, whatever its outcome,
\* sets num_handlers to zero and so drops every subscriber (the array entries
\* stay behind); no other operation takes a consumer off the list, and
\* unregistering removes only the named consumer.
C39_SubscribedUntilUnregisteredOrInit ==
    /\ [][\A h \in SubHandlers :
              (Subscribed(h) /\ ~Subscribed(h)') =>
                  \/ last'.op = "keyboard_unregister_handler" /\ last'.who = h
                  \/ IsKbdInit']_vars
    /\ [][IsKbdInit' =>
              /\ Subscribers' = <<>>
              /\ keyboard_state'.handlers = keyboard_state.handlers]_vars
    /\ [][last'.op = "keyboard_unregister_handler" =>
              Subscribers' = RemoveFirst(Subscribers, last'.who)]_vars
    /\ [][IsKbdByte' => Subscribers' = Subscribers]_vars

\* keyboard_init has just dropped two subscribers; their pointers are still in
\* the array
C39_Witness ==
    /\ IsKbdInit
    /\ Subscribers = <<>>
    /\ keyboard_state.handlers[0] = "sub_a"
    /\ keyboard_state.handlers[1] = "sub_b"
    /\ last.ret = "STATUS_SUCCESS"

\* --- C40 -------------------------------------------------------------------
ShiftKeys == {42, 54}

ShiftHeld == keys_held \cap ShiftKeys # {}

\* C40 as stated: after any sequence of make and break codes the shift bit is
\* true exactly when at least one of the two shift keys is held; a letter typed
\* while a shift key is held comes out in upper case.
C40_ShiftIffHeld ==
    /\ keyboard_state.shift <=> ShiftHeld
    /\ (IsKbdByte /\ last.data = 30 /\ ShiftHeld) => kbd_event.key = 65

\* C40, amended: the shift bit is set by the make code of either shift key and
\* cleared by the break code of either shift key, whatever the other shift key
\* does, and no other scancode changes it; so shift is true only while a shift
\* key is held, but it is false with a shift key held once the other one has
\* been released.
C40_ShiftFollowsLastShiftCode ==
    /\ [][IsKbdByte' =>
              keyboard_state'.shift =
                  (IF last'.data % 128 \in ShiftKeys
                   THEN last'.data < 128
                   ELSE keyboard_state.shift)]_vars
    /\ [](keyboard_state.shift => ShiftHeld)
    /\ [](IsKbdByte /\ last.data = 30 =>
              kbd_event.key = (IF keyboard_state.shift THEN 65 ELSE 97))

\* left shift went down, right shift went down, left shift went up: right
\* shift is held, the shift bit is clear and 0x1E has produced 'a'
C40_Witness ==
    /\ keys_held = {54, 30}
    /\ ~keyboard_state.shift
    /\ IsKbdByte
    /\ last.data = 30
    /\ kbd_event.key = 97
    /\ Len(kbd_delivered) = 1

====
